---- MODULE Spec2Model ----
(***************************************************************************)
(* Filter-query resolution and repository-scope synchronisation of the     *)
(* dashboard section (internal/tui/components/section/section.go) together *)
(* with the remote lookup and remote URL parser (internal/git/git.go).     *)
(*                                                                         *)
(* Go strings are modelled as sequences of one-character strings, so that  *)
(* strings.Fields, strings.Join, HasPrefix, TrimPrefix, Split ... are      *)
(* computed character by character as the Go code computes them.  The      *)
(* empty Go string is the empty sequence << >>.                            *)
(***************************************************************************)
EXTENDS Naturals, Integers, Sequences, FiniteSets, TLC

VARIABLES
    SearchValue,                \* BaseModel.SearchValue: the raw query text
    FilterTarget,               \* BaseModel.FilterTarget
    CustomRepoFilter,           \* BaseModel.CustomRepoFilter
    IsAuthorFilterRemoved,      \* BaseModel.IsAuthorFilterRemoved
    IsFilteredByCurrentRemote,  \* BaseModel.IsFilteredByCurrentRemote
    IsRepoPickerShown,          \* BaseModel.IsRepoPickerShown
    RepoPicker,                 \* BaseModel.RepoPicker (repopicker.Model)
    Config,                     \* Config.Filters and ctx.Config.SmartFilteringAtLaunch
    gitRepo,                    \* the git repository at getRepoDir(): its remotes
    query,                      \* the strings last returned by GetFilters() and
                                \* GetFilterTargetLabel(), NoQuery
                                \* once the state it was composed from has changed
    last,                       \* history: the entry point called last, its argument
                                \* and the fields it was called on (SpecOps records it)
    parsing,                    \* a remote URL, what it was built from, and the result
                                \* of ParseGitHubRepoFromUrl (and GetRepoShortName)
                                \* on it (SpecParse, SpecParseText)
    lookup,                     \* the result of GetOriginUrl or GetUpstreamUrl on
                                \* gitRepo (SpecRemotes)
    emitted                     \* history: the key last handed to the picker's Update,
                                \* the command it returned and the picker's mode
                                \* before it (SpecPicker)

vars == << SearchValue, FilterTarget, CustomRepoFilter, IsAuthorFilterRemoved,
           IsFilteredByCurrentRemote, IsRepoPickerShown, RepoPicker, Config,
           gitRepo, query, last, parsing, lookup, emitted >>

-----------------------------------------------------------------------------
(* Go's strings package, on sequences of characters.                       *)

\* unicode.IsSpace restricted to the characters of the model's alphabet
IsSpace(c) ==
    c = " "

HasPrefix(s, prefix) ==
    Len(s) >= Len(prefix) /\ SubSeq(s, 1, Len(prefix)) = prefix

HasSuffix(s, suffix) ==
    Len(s) >= Len(suffix) /\ SubSeq(s, Len(s) - Len(suffix) + 1, Len(s)) = suffix

TrimPrefix(s, prefix) ==
    IF HasPrefix(s, prefix) THEN SubSeq(s, Len(prefix) + 1, Len(s)) ELSE s

TrimSuffix(s, suffix) ==
    IF HasSuffix(s, suffix) THEN SubSeq(s, 1, Len(s) - Len(suffix)) ELSE s

RECURSIVE TrimLeftSpace(_)
TrimLeftSpace(s) ==
    IF s # << >> /\ IsSpace(Head(s)) THEN TrimLeftSpace(Tail(s)) ELSE s

RECURSIVE TrimRightSpace(_)
TrimRightSpace(s) ==
    IF s # << >> /\ IsSpace(s[Len(s)])
        THEN TrimRightSpace(SubSeq(s, 1, Len(s) - 1))
        ELSE s

TrimSpace(s) ==
    TrimRightSpace(TrimLeftSpace(s))

\* strings.Index(s, c) for a one-character c: 0-based, -1 when absent
Index(s, c) ==
    IF \E i \in 1..Len(s) : s[i] = c
        THEN (CHOOSE i \in 1..Len(s) : s[i] = c /\ \A j \in 1..(i - 1) : s[j] # c) - 1
        ELSE -1

\* s[from:] with Go's 0-based index
SliceFrom(s, from) ==
    SubSeq(s, from + 1, Len(s))

RECURSIVE SplitAcc(_, _, _, _)
SplitAcc(rest, sep, cur, acc) ==
    IF rest = << >> THEN Append(acc, cur)
    ELSE IF Head(rest) = sep THEN SplitAcc(Tail(rest), sep, << >>, Append(acc, cur))
    ELSE SplitAcc(Tail(rest), sep, Append(cur, Head(rest)), acc)

\* strings.Split(s, sep) for a one-character sep
Split(s, sep) ==
    SplitAcc(s, sep, << >>, << >>)

RECURSIVE FieldsAcc(_, _, _)
FieldsAcc(rest, cur, acc) ==
    IF rest = << >> THEN (IF cur = << >> THEN acc ELSE Append(acc, cur))
    ELSE IF IsSpace(Head(rest))
        THEN FieldsAcc(Tail(rest), << >>, IF cur = << >> THEN acc ELSE Append(acc, cur))
    ELSE FieldsAcc(Tail(rest), Append(cur, Head(rest)), acc)

\* strings.Fields / strings.FieldsSeq: the maximal runs of non-space characters
Fields(s) ==
    FieldsAcc(s, << >>, << >>)

RECURSIVE Join(_, _)
Join(elems, sep) ==
    IF elems = << >> THEN << >>
    ELSE IF Len(elems) = 1 THEN elems[1]
    ELSE elems[1] \o sep \o Join(Tail(elems), sep)

-----------------------------------------------------------------------------
(* String literals of the source.                                          *)

RepoPrefix == << "r", "e", "p", "o", ":" >>                          \* "repo:"
AuthorMe   == << "a", "u", "t", "h", "o", "r", ":", "@", "m", "e" >> \* "author:@me"
DotGit     == << ".", "g", "i", "t" >>                               \* ".git"
GitAt      == << "g", "i", "t", "@" >>                               \* "git@"
HttpsScheme == << "h", "t", "t", "p", "s", ":", "/", "/" >>          \* "https://"
HttpScheme == << "h", "t", "t", "p", ":", "/", "/" >>                \* "http://"
Slash      == << "/" >>
Space      == << " " >>

-----------------------------------------------------------------------------
(* internal/git/git.go                                                     *)

ErrNil               == "nil"
ErrMissingColon      == "invalid SSH URL format: missing colon separator"
ErrSSHOwnerRepo      == "invalid SSH URL format: expected owner/repo"
ErrMissingPath       == "invalid HTTPS URL format: missing path"
ErrHTTPSOwnerRepo    == "invalid HTTPS URL format: expected owner/repo"
ErrUnsupported       == "unsupported URL format: expected git@ or https:// prefix"
ErrNoOrigin          == "no origin remote found"
ErrNoUpstream        == "no upstream remote found"
ErrOpen              == "gitm.Open failed"
ErrRemoteGetURL      == "gitm.RemoteGetURL failed"

ParseResult(owner, name, err) ==
    [owner |-> owner, name |-> name, err |-> err]

\* ParseSSH without the TrimPrefix that handles git@host:/owner/repo
ParseSSHKeepsLeadingSlash(remoteUrl) ==
    LET colonIdx == Index(remoteUrl, ":")
    IN  IF colonIdx = -1 THEN ParseResult(<< >>, << >>, ErrMissingColon)
        ELSE LET path  == TrimSuffix(SliceFrom(remoteUrl, colonIdx + 1), DotGit)
                 parts == Split(path, "/")
             IN  IF Len(parts) # 2 \/ parts[1] = << >> \/ parts[2] = << >>
                     THEN ParseResult(<< >>, << >>, ErrSSHOwnerRepo)
                     ELSE ParseResult(parts[1], parts[2], ErrNil)

ParseSSH(remoteUrl) ==
    LET colonIdx == Index(remoteUrl, ":")
    IN  IF colonIdx = -1 THEN ParseResult(<< >>, << >>, ErrMissingColon)
        ELSE LET path  == TrimPrefix(TrimSuffix(SliceFrom(remoteUrl, colonIdx + 1), DotGit), Slash)
                 parts == Split(path, "/")
             IN  IF Len(parts) # 2 \/ parts[1] = << >> \/ parts[2] = << >>
                     THEN ParseResult(<< >>, << >>, ErrSSHOwnerRepo)
                     ELSE ParseResult(parts[1], parts[2], ErrNil)

\* ParseHTTP accepting the public host only
ParseHTTPPublicHostOnly(remoteUrl) ==
    LET afterScheme == IF HasPrefix(remoteUrl, HttpsScheme)
                           THEN TrimPrefix(remoteUrl, HttpsScheme)
                           ELSE TrimPrefix(remoteUrl, HttpScheme)
        slashIdx == Index(afterScheme, "/")
    IN  IF slashIdx = -1 THEN ParseResult(<< >>, << >>, ErrMissingPath)
        ELSE IF SubSeq(afterScheme, 1, slashIdx)
                    # << "g", "i", "t", "h", "u", "b", ".", "c", "o", "m" >>
            THEN ParseResult(<< >>, << >>, ErrUnsupported)
        ELSE LET path  == TrimSuffix(TrimSuffix(SliceFrom(afterScheme, slashIdx + 1), DotGit), Slash)
                 parts == Split(path, "/")
             IN  IF Len(parts) # 2 \/ parts[1] = << >> \/ parts[2] = << >>
                     THEN ParseResult(<< >>, << >>, ErrHTTPSOwnerRepo)
                     ELSE ParseResult(parts[1], parts[2], ErrNil)

\* ParseHTTP accepting paths of more than two segments
ParseHTTPAcceptsLongPath(remoteUrl) ==
    LET afterScheme == IF HasPrefix(remoteUrl, HttpsScheme)
                           THEN TrimPrefix(remoteUrl, HttpsScheme)
                           ELSE TrimPrefix(remoteUrl, HttpScheme)
        slashIdx == Index(afterScheme, "/")
    IN  IF slashIdx = -1 THEN ParseResult(<< >>, << >>, ErrMissingPath)
        ELSE LET path  == TrimSuffix(TrimSuffix(SliceFrom(afterScheme, slashIdx + 1), DotGit), Slash)
                 parts == Split(path, "/")
             IN  IF Len(parts) < 2 \/ parts[1] = << >> \/ parts[2] = << >>
                     THEN ParseResult(<< >>, << >>, ErrHTTPSOwnerRepo)
                     ELSE ParseResult(parts[1], parts[2], ErrNil)

ParseHTTP(remoteUrl) ==
    LET afterScheme == IF HasPrefix(remoteUrl, HttpsScheme)
                           THEN TrimPrefix(remoteUrl, HttpsScheme)
                           ELSE TrimPrefix(remoteUrl, HttpScheme)
        slashIdx == Index(afterScheme, "/")
    IN  IF slashIdx = -1 THEN ParseResult(<< >>, << >>, ErrMissingPath)
        ELSE LET path  == TrimSuffix(TrimSuffix(SliceFrom(afterScheme, slashIdx + 1), DotGit), Slash)
                 parts == Split(path, "/")
             IN  IF Len(parts) # 2 \/ parts[1] = << >> \/ parts[2] = << >>
                     THEN ParseResult(<< >>, << >>, ErrHTTPSOwnerRepo)
                     ELSE ParseResult(parts[1], parts[2], ErrNil)

\* ParseGitHubRepoFromUrl without the TrimSuffix of the trailing slash
ParseGitHubRepoFromUrlKeepsSlash(rawUrl) ==
    LET remoteUrl == TrimSpace(rawUrl)
    IN  IF HasPrefix(remoteUrl, GitAt) THEN ParseSSH(remoteUrl)
        ELSE IF HasPrefix(remoteUrl, HttpsScheme) \/ HasPrefix(remoteUrl, HttpScheme)
            THEN ParseHTTP(remoteUrl)
        ELSE ParseResult(<< >>, << >>, ErrUnsupported)

ParseGitHubRepoFromUrl(rawUrl) ==
    LET remoteUrl == TrimSuffix(TrimSpace(rawUrl), Slash)
    IN  IF HasPrefix(remoteUrl, GitAt) THEN ParseSSH(remoteUrl)
        ELSE IF HasPrefix(remoteUrl, HttpsScheme) \/ HasPrefix(remoteUrl, HttpScheme)
            THEN ParseHTTP(remoteUrl)
        ELSE ParseResult(<< >>, << >>, ErrUnsupported)

GitHubPrefix ==
    HttpsScheme \o << "g", "i", "t", "h", "u", "b", ".", "c", "o", "m" >> \o Slash

\* strings.CutPrefix and strings.CutSuffix, the found flag dropped
GetRepoShortName(url) ==
    TrimSuffix(TrimPrefix(url, GitHubPrefix), DotGit)

UrlResult(url, err) ==
    [url |-> url, err |-> err]

\* the loop over repo.Remotes() shared by GetOriginUrl and GetUpstreamUrl:
\* the first remote with the wanted name decides
RECURSIVE RemoteUrlLoop(_, _, _)
RemoteUrlLoop(remotes, wanted, notFound) ==
    IF remotes = << >> THEN UrlResult(<< >>, notFound)
    ELSE LET remote == Head(remotes)
         IN  IF remote.name # wanted THEN RemoteUrlLoop(Tail(remotes), wanted, notFound)
             ELSE IF remote.getUrlFails THEN UrlResult(<< >>, ErrRemoteGetURL)
             ELSE IF Len(remote.urls) = 0 THEN UrlResult(<< >>, ErrNil)
             ELSE UrlResult(remote.urls[1], ErrNil)

GetOriginUrl(repo) ==
    IF ~repo.opens THEN UrlResult(<< >>, ErrOpen)
    ELSE RemoteUrlLoop(repo.remotes, "origin", ErrNoOrigin)

GetUpstreamUrl(repo) ==
    IF ~repo.opens THEN UrlResult(<< >>, ErrOpen)
    ELSE RemoteUrlLoop(repo.remotes, "upstream", ErrNoUpstream)

-----------------------------------------------------------------------------
(* internal/tui/components/section/section.go: the query composer          *)

FilterTargetOrigin   == "Origin"
FilterTargetUpstream == "Upstream"
FilterTargetNone     == "None"
FilterTargets == {FilterTargetOrigin, FilterTargetUpstream, FilterTargetNone}

\* "repo:" followed by a value, and owner "/" name
RepoToken(value) ==
    RepoPrefix \o value

OwnerSlashName(owner, name) ==
    owner \o Slash \o name

\* the append loops `if !strings.HasPrefix(token, "repo:")` over the tokens
RECURSIVE WithoutRepoTokens(_)
WithoutRepoTokens(tokens) ==
    IF tokens = << >> THEN << >>
    ELSE IF ~HasPrefix(Head(tokens), RepoPrefix)
        THEN << Head(tokens) >> \o WithoutRepoTokens(Tail(tokens))
    ELSE WithoutRepoTokens(Tail(tokens))

\* the append loop `if token != "author:@me"` over the tokens
RECURSIVE WithoutAuthorMe(_)
WithoutAuthorMe(tokens) ==
    IF tokens = << >> THEN << >>
    ELSE IF Head(tokens) # AuthorMe
        THEN << Head(tokens) >> \o WithoutAuthorMe(Tail(tokens))
    ELSE WithoutAuthorMe(Tail(tokens))

\* the tokens that start with "repo:", in order
RECURSIVE RepoTokens(_)
RepoTokens(tokens) ==
    IF tokens = << >> THEN << >>
    ELSE IF HasPrefix(Head(tokens), RepoPrefix)
        THEN << Head(tokens) >> \o RepoTokens(Tail(tokens))
    ELSE RepoTokens(Tail(tokens))

StripRepoFilterTokens(searchValue) ==
    Join(WithoutRepoTokens(Fields(searchValue)), Space)

\* (value, ok): the value of the first token that starts with "repo:"
getRepoFilterTokenValue(searchValue) ==
    LET repoTokens == RepoTokens(Fields(searchValue))
    IN  IF repoTokens = << >> THEN [value |-> << >>, ok |-> FALSE]
        ELSE [value |-> TrimPrefix(repoTokens[1], RepoPrefix), ok |-> TRUE]

HasRepoNameInConfiguredFilter(m) ==
    RepoTokens(Fields(m.Config.Filters)) # << >>

RepoResult(owner, name, has) ==
    [owner |-> owner, name |-> name, has |-> has]

GetOriginRepo(m) ==
    LET originUrl == GetOriginUrl(m.gitRepo)
    IN  IF originUrl.err # ErrNil THEN RepoResult(<< >>, << >>, FALSE)
        ELSE LET parsed == ParseGitHubRepoFromUrl(originUrl.url)
             IN  IF parsed.err # ErrNil THEN RepoResult(<< >>, << >>, FALSE)
                 ELSE RepoResult(parsed.owner, parsed.name, TRUE)

GetUpstreamRepo(m) ==
    LET upstreamUrl == GetUpstreamUrl(m.gitRepo)
    IN  IF upstreamUrl.err # ErrNil THEN RepoResult(<< >>, << >>, FALSE)
        ELSE LET parsed == ParseGitHubRepoFromUrl(upstreamUrl.url)
             IN  IF parsed.err # ErrNil THEN RepoResult(<< >>, << >>, FALSE)
                 ELSE RepoResult(parsed.owner, parsed.name, TRUE)

HasUpstreamRemote(m) ==
    GetUpstreamRepo(m).has

(* text/template on the search value.  Text outside {{ }} is copied; the    *)
(* action {{.Now}} prints searchVars.Now; an unclosed {{, or an action that  *)
(* is not a field of searchVars, fails to parse or to execute.              *)
LeftDelim  == << "{", "{" >>
RightDelim == << "}", "}" >>
DotNow     == << ".", "N", "o", "w" >>
\* what time.Now() prints as: a date and a time of day, separated by a space
NowText    == << "D", " ", "T" >>

\* strings.Index(s, sub) for a two-character sub: 0-based, -1 when absent
RECURSIVE IndexPair(_, _, _)
IndexPair(s, sub, from) ==
    IF from + 2 > Len(s) THEN -1
    ELSE IF SubSeq(s, from + 1, from + 2) = sub THEN from
    ELSE IndexPair(s, sub, from + 1)

RECURSIVE ExecuteTemplate(_)
ExecuteTemplate(text) ==
    LET open == IndexPair(text, LeftDelim, 0)
    IN  IF open = -1 THEN [ok |-> TRUE, out |-> text]
        ELSE LET after == SliceFrom(text, open + 2)
                 close == IndexPair(after, RightDelim, 0)
             IN  IF close = -1 THEN [ok |-> FALSE, out |-> << >>]
                 ELSE IF TrimSpace(SubSeq(after, 1, close)) # DotNow
                     THEN [ok |-> FALSE, out |-> << >>]
                 ELSE LET rest == ExecuteTemplate(SliceFrom(after, close + 2))
                      IN  IF ~rest.ok THEN rest
                          ELSE [ok |-> TRUE,
                                out |-> SubSeq(text, 1, open) \o NowText \o rest.out]

\* enrichSearchWithTemplateVars returning the buffer whether or not the
\* template was parsed and executed
enrichSearchReturnsBuffer(m) ==
    ExecuteTemplate(m.SearchValue).out

enrichSearchWithTemplateVars(m) ==
    LET executed == ExecuteTemplate(m.SearchValue)
    IN  IF executed.ok THEN executed.out ELSE m.SearchValue

\* applyAuthorFilter without the early return on !m.IsAuthorFilterRemoved
applyAuthorFilterAlways(m, searchValue) ==
    Join(WithoutAuthorMe(Fields(searchValue)), Space)

applyAuthorFilter(m, searchValue) ==
    IF ~m.IsAuthorFilterRemoved THEN searchValue
    ELSE Join(WithoutAuthorMe(Fields(searchValue)), Space)

\* applyRepoFilter without the loop that drops the existing repo: tokens
applyRepoFilterNoStrip(m, searchValue, repoFilter) ==
    LET joined == Join(Fields(searchValue), Space)
        result == IF repoFilter = << >> THEN joined
                  ELSE IF joined = << >> THEN RepoToken(repoFilter)
                  ELSE RepoToken(repoFilter) \o Space \o joined
    IN  IF ~m.IsAuthorFilterRemoved THEN result
        ELSE Join(WithoutAuthorMe(Fields(result)), Space)

applyRepoFilter(m, searchValue, repoFilter) ==
    LET searchValueWithoutRepoFilter == Join(WithoutRepoTokens(Fields(searchValue)), Space)
        result == IF repoFilter = << >> THEN searchValueWithoutRepoFilter
                  ELSE IF searchValueWithoutRepoFilter = << >> THEN RepoToken(repoFilter)
                  ELSE RepoToken(repoFilter) \o Space \o searchValueWithoutRepoFilter
    IN  applyAuthorFilter(m, result)

\* hasManualRepoFilter comparing with the remotes whatever m.FilterTarget is
hasManualRepoFilterAnyTarget(m, searchValue) ==
    LET repoTokens == RepoTokens(Fields(searchValue))
    IN  IF repoTokens = << >> THEN FALSE
        ELSE LET repoValue == TrimPrefix(repoTokens[1], RepoPrefix)
                 origin    == GetOriginRepo(m)
                 upstream  == GetUpstreamRepo(m)
             IN  IF ~origin.has THEN TRUE
                 ELSE IF repoValue = OwnerSlashName(origin.owner, origin.name) THEN FALSE
                 ELSE IF upstream.has
                         /\ repoValue = OwnerSlashName(upstream.owner, upstream.name)
                     THEN FALSE
                 ELSE TRUE

hasManualRepoFilter(m, searchValue) ==
    LET repoTokens == RepoTokens(Fields(searchValue))
    IN  IF repoTokens = << >> THEN FALSE
        ELSE LET repoValue == TrimPrefix(repoTokens[1], RepoPrefix)
                 origin    == GetOriginRepo(m)
                 upstream  == GetUpstreamRepo(m)
             IN  IF ~origin.has THEN TRUE
                 ELSE IF repoValue = OwnerSlashName(origin.owner, origin.name)
                         /\ m.FilterTarget = FilterTargetOrigin THEN FALSE
                 ELSE IF upstream.has
                         /\ repoValue = OwnerSlashName(upstream.owner, upstream.name)
                         /\ m.FilterTarget = FilterTargetUpstream THEN FALSE
                 ELSE TRUE

\* the switch on m.FilterTarget without the fall back to origin
ScopedSearchValueNoFallback(m, origin, searchValueWithoutRepoFilter) ==
    LET upstream == GetUpstreamRepo(m)
    IN  IF m.FilterTarget = FilterTargetOrigin
            THEN RepoToken(OwnerSlashName(origin.owner, origin.name))
                     \o Space \o searchValueWithoutRepoFilter
        ELSE IF m.FilterTarget = FilterTargetUpstream /\ upstream.has
            THEN RepoToken(OwnerSlashName(upstream.owner, upstream.name))
                     \o Space \o searchValueWithoutRepoFilter
        ELSE searchValueWithoutRepoFilter

\* the switch on m.FilterTarget at the end of GetSearchValue
ScopedSearchValue(m, origin, searchValueWithoutRepoFilter) ==
    LET upstream == GetUpstreamRepo(m)
        originScoped == RepoToken(OwnerSlashName(origin.owner, origin.name))
                            \o Space \o searchValueWithoutRepoFilter
    IN  IF m.FilterTarget = FilterTargetOrigin THEN originScoped
        ELSE IF m.FilterTarget = FilterTargetUpstream
            THEN IF upstream.has
                     THEN RepoToken(OwnerSlashName(upstream.owner, upstream.name))
                              \o Space \o searchValueWithoutRepoFilter
                     ELSE originScoped
        ELSE searchValueWithoutRepoFilter

GetSearchValue(m) ==
    LET searchValue == enrichSearchWithTemplateVars(m)
        origin      == GetOriginRepo(m)
    IN  IF m.CustomRepoFilter # << >> THEN applyRepoFilter(m, searchValue, m.CustomRepoFilter)
        ELSE IF ~origin.has THEN applyAuthorFilter(m, searchValue)
        ELSE IF HasRepoNameInConfiguredFilter(m) THEN applyAuthorFilter(m, searchValue)
        ELSE IF hasManualRepoFilter(m, searchValue) THEN applyAuthorFilter(m, searchValue)
        ELSE applyAuthorFilter(m,
                ScopedSearchValue(m, origin,
                    Join(WithoutRepoTokens(Fields(searchValue)), Space)))

GetFilters(m) ==
    GetSearchValue(m)

\* the literal labels of GetFilterTargetLabel
LabelOrigin   == << "o", "r", "i", "g", "i", "n" >>
LabelUpstream == << "u", "p", "s", "t", "r", "e", "a", "m" >>
LabelAll      == << "a", "l", "l" >>

\* GetFilterTargetLabel naming the origin when the upstream does not resolve,
\* as GetSearchValue scopes
GetFilterTargetLabelWithFallback(m) ==
    LET origin   == GetOriginRepo(m)
        upstream == GetUpstreamRepo(m)
    IN  IF m.CustomRepoFilter # << >> THEN m.CustomRepoFilter
        ELSE CASE m.FilterTarget = FilterTargetOrigin ->
                      IF origin.has THEN OwnerSlashName(origin.owner, origin.name)
                                    ELSE LabelOrigin
               [] m.FilterTarget = FilterTargetUpstream ->
                      IF upstream.has
                          THEN OwnerSlashName(upstream.owner, upstream.name)
                      ELSE IF origin.has
                          THEN OwnerSlashName(origin.owner, origin.name)
                      ELSE LabelUpstream
               [] OTHER -> LabelAll

GetFilterTargetLabel(m) ==
    LET origin   == GetOriginRepo(m)
        upstream == GetUpstreamRepo(m)
    IN  IF m.CustomRepoFilter # << >> THEN m.CustomRepoFilter
        ELSE CASE m.FilterTarget = FilterTargetOrigin ->
                      IF origin.has THEN OwnerSlashName(origin.owner, origin.name)
                                    ELSE LabelOrigin
               [] m.FilterTarget = FilterTargetUpstream ->
                      IF upstream.has
                          THEN OwnerSlashName(upstream.owner, upstream.name)
                          ELSE LabelUpstream
               [] OTHER -> LabelAll

-----------------------------------------------------------------------------
(* The bounded inputs.                                                     *)

\* the longest raw query text handed to the composer, in tokens
MaxTokens == 3
\* the longest raw query text the user commits in the state machine, in tokens
MaxEditTokens == 1

RepoAB == << "a", "/", "b" >>
RepoCD == << "c", "/", "d" >>
\* a value typed into the picker's custom input: TrimSpace keeps inner spaces
RepoWithSpace == << "e", " ", "f" >>

SshUrlAB      == GitAt \o << "h", ":" >> \o RepoAB \o DotGit          \* git@h:a/b.git
HttpsUrlCD    == HttpsScheme \o << "h", "/" >> \o RepoCD             \* https://h/c/d
HttpsUrlAB    == HttpsScheme \o << "h", "/" >> \o RepoAB \o Slash    \* https://h/a/b/
HttpsUrlNoRepo == HttpsScheme \o << "h", "/", "a" >>                 \* https://h/a

Remote(name, urls) ==
    [name |-> name, urls |-> urls, getUrlFails |-> FALSE]

\* the repositories the dashboard may be started in
GitRepos ==
    { [opens |-> FALSE, remotes |-> << >>],
      [opens |-> TRUE,  remotes |-> << >>],
      [opens |-> TRUE,  remotes |-> << Remote("origin", << SshUrlAB >>) >>],
      [opens |-> TRUE,  remotes |-> << Remote("origin", << SshUrlAB >>),
                                       Remote("upstream", << HttpsUrlCD >>) >>],
      [opens |-> TRUE,  remotes |-> << Remote("upstream", << HttpsUrlAB >>),
                                       Remote("origin", << SshUrlAB >>) >>],
      [opens |-> TRUE,  remotes |-> << Remote("upstream", << HttpsUrlCD >>) >>],
      [opens |-> TRUE,  remotes |-> << Remote("origin", << HttpsUrlNoRepo >>),
                                       Remote("upstream", << HttpsUrlCD >>) >>] }

\* the configured base filters: one without and one with a repo: token
ConfigFilters ==
    { AuthorMe, RepoToken(RepoCD) \o Space \o << "x" >> }

Configs ==
    [Filters : ConfigFilters, SmartFilteringAtLaunch : BOOLEAN]

TokenVocabulary ==
    { << "x" >>, AuthorMe, RepoToken(RepoAB), RepoToken(RepoCD) }

RECURSIVE TokenSeqs(_)
TokenSeqs(n) ==
    IF n = 0 THEN { << >> }
    ELSE TokenSeqs(n - 1)
            \cup { Append(ts, t) : ts \in { u \in TokenSeqs(n - 1) : Len(u) = n - 1 },
                                   t \in TokenVocabulary }

RECURSIVE Spaces(_)
Spaces(n) ==
    IF n = 0 THEN << >> ELSE Space \o Spaces(n - 1)

\* tokens laid out tightly (pad 0) or with a leading space, a trailing space and
\* two spaces between tokens (pad 1)
LayOut(tokens, pad) ==
    Spaces(pad) \o Join(tokens, Spaces(1 + pad)) \o Spaces(pad)

\* texts with template actions, and a repo: token without a value
EdgeTexts ==
    { LeftDelim \o DotNow \o RightDelim,               \* {{.Now}}
      << "x", " " >> \o LeftDelim,                     \* x {{
      LeftDelim \o << "x" >> \o RightDelim,            \* {{x}}
      RepoPrefix }                                     \* repo:

\* the raw query texts the composer is applied to
SearchValues ==
    { LayOut(ts, pad) : ts \in TokenSeqs(MaxTokens), pad \in {0, 1} } \cup EdgeTexts

\* the raw query texts the user commits in the state machine
EditedSearchValues ==
    { LayOut(ts, 0) : ts \in TokenSeqs(MaxEditTokens) }
        \cup { RepoToken(RepoCD) \o Space \o RepoToken(RepoAB),
               << "x", " " >> \o RepoToken(RepoCD),
               RepoPrefix }

\* the values passed to SetCustomRepoFilter and sent by the picker
RepoValues ==
    { << >>, RepoAB, RepoCD, RepoWithSpace }

-----------------------------------------------------------------------------
(* The section model as a state machine.                                   *)

\* the BaseModel the methods below receive
Self ==
    [SearchValue |-> SearchValue, FilterTarget |-> FilterTarget,
     CustomRepoFilter |-> CustomRepoFilter,
     IsAuthorFilterRemoved |-> IsAuthorFilterRemoved,
     Config |-> Config, gitRepo |-> gitRepo]

NoQuery ==
    [fresh |-> FALSE, value |-> << >>, label |-> << >>]

\* the fields of the model the mutation entry points write
WrittenFields ==
    [SearchValue |-> SearchValue, FilterTarget |-> FilterTarget,
     CustomRepoFilter |-> CustomRepoFilter,
     IsAuthorFilterRemoved |-> IsAuthorFilterRemoved,
     IsFilteredByCurrentRemote |-> IsFilteredByCurrentRemote,
     IsRepoPickerShown |-> IsRepoPickerShown]

\* no entry point recorded
NoOp ==
    [op |-> "none", arg |-> << >>, flag |-> FALSE,
     pre |-> [SearchValue |-> << >>, FilterTarget |-> FilterTargetNone,
              CustomRepoFilter |-> << >>, IsAuthorFilterRemoved |-> FALSE,
              IsFilteredByCurrentRemote |-> FALSE, IsRepoPickerShown |-> FALSE]]

\* no remote URL handed to the parser
NoParse ==
    [form |-> "none", host |-> << >>, owner |-> << >>, name |-> << >>, pad |-> 0,
     url |-> << >>, done |-> FALSE, result |-> ParseResult(<< >>, << >>, ErrNil)]

\* no remote looked up
NoLookup ==
    [op |-> "none", done |-> FALSE, result |-> UrlResult(<< >>, ErrNil)]

\* entry point op was called with argument arg (and flag) in the current state
Called(op, arg, flag) ==
    [op |-> op, arg |-> arg, flag |-> flag, pre |-> WrittenFields]

\* GetConfigFiltersWithCurrentRemoteAdded without the loop over the tokens
\* of the configured filter
GetConfigFiltersAlwaysAdded(config, repo) ==
    LET searchValue == config.Filters
        originUrl   == GetOriginUrl(repo)
        parsed      == ParseGitHubRepoFromUrl(originUrl.url)
    IN  IF ~config.SmartFilteringAtLaunch THEN searchValue
        ELSE IF originUrl.err # ErrNil THEN searchValue
        ELSE IF parsed.err # ErrNil THEN searchValue
        ELSE RepoToken(OwnerSlashName(parsed.owner, parsed.name)) \o Space \o searchValue

\* GetConfigFiltersWithCurrentRemoteAdded putting the repo: token after the
\* configured filter
GetConfigFiltersRemoteAppended(config, repo) ==
    LET searchValue == config.Filters
        originUrl   == GetOriginUrl(repo)
        parsed      == ParseGitHubRepoFromUrl(originUrl.url)
    IN  IF ~config.SmartFilteringAtLaunch THEN searchValue
        ELSE IF originUrl.err # ErrNil THEN searchValue
        ELSE IF parsed.err # ErrNil THEN searchValue
        ELSE IF RepoTokens(Fields(searchValue)) # << >> THEN searchValue
        ELSE searchValue \o Space \o RepoToken(OwnerSlashName(parsed.owner, parsed.name))

GetConfigFiltersWithCurrentRemoteAdded(config, repo) ==
    LET searchValue == config.Filters
        originUrl   == GetOriginUrl(repo)
        parsed      == ParseGitHubRepoFromUrl(originUrl.url)
    IN  IF ~config.SmartFilteringAtLaunch THEN searchValue
        ELSE IF originUrl.err # ErrNil THEN searchValue
        ELSE IF parsed.err # ErrNil THEN searchValue
        ELSE IF RepoTokens(Fields(searchValue)) # << >> THEN searchValue
        ELSE RepoToken(OwnerSlashName(parsed.owner, parsed.name)) \o Space \o searchValue

\* a command returned by repopicker.Model.Update: nil, a message or a command of
\* the text input
Cmd(kind, value, isCustom) ==
    [kind |-> kind, Value |-> value, IsCustom |-> isCustom]

NilCmd == Cmd("nil", << >>, FALSE)

\* no key has been handed to the picker
NoKey ==
    [key |-> "none", cmd |-> NilCmd, wasFocused |-> FALSE, wasCustomMode |-> FALSE,
     unchanged |-> TRUE]

\* repopicker.NewModel
NewRepoPicker ==
    [options |-> << >>, cursor |-> 0, customInput |-> << >>, isCustomMode |-> FALSE,
     focused |-> FALSE, selectedValue |-> << >>]

\* NewModel
Init ==
    /\ gitRepo \in GitRepos
    /\ Config \in Configs
    /\ LET filters == GetConfigFiltersWithCurrentRemoteAdded(Config, gitRepo)
       IN  /\ SearchValue = filters
           /\ FilterTarget = IF Config.SmartFilteringAtLaunch /\ filters # Config.Filters
                                 THEN FilterTargetOrigin ELSE FilterTargetNone
           /\ IsFilteredByCurrentRemote =
                  (Config.SmartFilteringAtLaunch /\ filters # Config.Filters)
    /\ CustomRepoFilter = << >>
    /\ IsAuthorFilterRemoved = FALSE
    /\ IsRepoPickerShown = FALSE
    /\ RepoPicker = NewRepoPicker
    /\ query = NoQuery
    /\ last = NoOp
    /\ parsing = NoParse
    /\ lookup = NoLookup
    /\ emitted = NoKey

\* the caller's assignment to the exported field SearchValue (a committed edit)
SetSearchValue(text) ==
    /\ SearchValue' = text
    /\ query' = NoQuery
    /\ UNCHANGED << FilterTarget, CustomRepoFilter, IsAuthorFilterRemoved,
                    IsFilteredByCurrentRemote, IsRepoPickerShown, RepoPicker,
                    Config, gitRepo >>

\* CycledFilterTarget without the check for an upstream remote
CycledFilterTargetNoSkip(m) ==
    CASE m.FilterTarget = FilterTargetOrigin -> FilterTargetUpstream
      [] m.FilterTarget = FilterTargetUpstream -> FilterTargetNone
      [] m.FilterTarget = FilterTargetNone -> FilterTargetOrigin

\* the FilterTarget the switch of ToggleFilterTarget moves model m to
CycledFilterTarget(m) ==
    CASE m.FilterTarget = FilterTargetOrigin ->
             IF HasUpstreamRemote(m) THEN FilterTargetUpstream ELSE FilterTargetNone
      [] m.FilterTarget = FilterTargetUpstream -> FilterTargetNone
      [] m.FilterTarget = FilterTargetNone -> FilterTargetOrigin

\* ToggleFilterTarget without the early return for a configured repo: token
ToggleFilterTargetUnguarded ==
    /\ FilterTarget' = CycledFilterTarget(Self)
    /\ IsFilteredByCurrentRemote' = (FilterTarget' # FilterTargetNone)
    /\ query' = NoQuery
    /\ UNCHANGED << SearchValue, CustomRepoFilter, IsAuthorFilterRemoved,
                    IsRepoPickerShown, RepoPicker, Config, gitRepo >>

\* ToggleFilterTarget dropping the custom filter it toggles away from
ToggleFilterTargetClearsCustom ==
    /\ IF HasRepoNameInConfiguredFilter(Self)
           THEN UNCHANGED << FilterTarget, IsFilteredByCurrentRemote >>
           ELSE /\ FilterTarget' = CycledFilterTarget(Self)
                /\ IsFilteredByCurrentRemote' = (FilterTarget' # FilterTargetNone)
    /\ CustomRepoFilter' = << >>
    /\ query' = NoQuery
    /\ UNCHANGED << SearchValue, IsAuthorFilterRemoved,
                    IsRepoPickerShown, RepoPicker, Config, gitRepo >>

ToggleFilterTarget ==
    /\ IF HasRepoNameInConfiguredFilter(Self)
           THEN UNCHANGED << FilterTarget, IsFilteredByCurrentRemote >>
           ELSE /\ FilterTarget' = CycledFilterTarget(Self)
                /\ IsFilteredByCurrentRemote' = (FilterTarget' # FilterTargetNone)
    /\ query' = NoQuery
    /\ UNCHANGED << SearchValue, CustomRepoFilter, IsAuthorFilterRemoved,
                    IsRepoPickerShown, RepoPicker, Config, gitRepo >>

\* ToggleAuthorFilter that only ever removes the author filter
ToggleAuthorFilterSetsOnly ==
    /\ IsAuthorFilterRemoved' = TRUE
    /\ query' = NoQuery
    /\ UNCHANGED << SearchValue, FilterTarget, CustomRepoFilter,
                    IsFilteredByCurrentRemote, IsRepoPickerShown, RepoPicker,
                    Config, gitRepo >>

ToggleAuthorFilter ==
    /\ IsAuthorFilterRemoved' = ~IsAuthorFilterRemoved
    /\ query' = NoQuery
    /\ UNCHANGED << SearchValue, FilterTarget, CustomRepoFilter,
                    IsFilteredByCurrentRemote, IsRepoPickerShown, RepoPicker,
                    Config, gitRepo >>

\* SetCustomRepoFilter leaving FilterTarget as it is
SetCustomRepoFilterKeepsTarget(repo) ==
    /\ CustomRepoFilter' = repo
    /\ IsFilteredByCurrentRemote' = (repo # << >> \/ IsFilteredByCurrentRemote)
    /\ query' = NoQuery
    /\ UNCHANGED << SearchValue, FilterTarget, IsAuthorFilterRemoved, IsRepoPickerShown,
                    RepoPicker, Config, gitRepo >>

SetCustomRepoFilter(repo) ==
    /\ CustomRepoFilter' = repo
    /\ IF repo # << >>
           THEN /\ FilterTarget' = FilterTargetNone
                /\ IsFilteredByCurrentRemote' = TRUE
           ELSE UNCHANGED << FilterTarget, IsFilteredByCurrentRemote >>
    /\ query' = NoQuery
    /\ UNCHANGED << SearchValue, IsAuthorFilterRemoved, IsRepoPickerShown,
                    RepoPicker, Config, gitRepo >>

ClearCustomRepoFilter ==
    /\ CustomRepoFilter' = << >>
    /\ query' = NoQuery
    /\ UNCHANGED << SearchValue, FilterTarget, IsAuthorFilterRemoved,
                    IsFilteredByCurrentRemote, IsRepoPickerShown, RepoPicker,
                    Config, gitRepo >>

\* (CustomRepoFilter, FilterTarget, IsFilteredByCurrentRemote) a repo value
\* resolves to: shared by SyncRepoFilterStateFromSearchValue and
\* HandleRepoSelected, which run the same comparisons
ScopeForRepoValue(m, repoValue) ==
    LET origin   == GetOriginRepo(m)
        upstream == GetUpstreamRepo(m)
    IN  IF repoValue = << >>
            THEN [custom |-> << >>, target |-> FilterTargetNone, filtered |-> FALSE]
        ELSE IF origin.has /\ repoValue = OwnerSlashName(origin.owner, origin.name)
            THEN [custom |-> << >>, target |-> FilterTargetOrigin, filtered |-> TRUE]
        ELSE IF upstream.has /\ repoValue = OwnerSlashName(upstream.owner, upstream.name)
            THEN [custom |-> << >>, target |-> FilterTargetUpstream, filtered |-> TRUE]
        ELSE [custom |-> repoValue, target |-> FilterTargetNone, filtered |-> TRUE]

\* SyncedScope reading the last repo: token of the text instead of the first
SyncedScopeLastToken(m) ==
    LET repoTokens == RepoTokens(Fields(m.SearchValue))
        value      == TrimPrefix(repoTokens[Len(repoTokens)], RepoPrefix)
    IN  IF repoTokens = << >> \/ value = << >>
            THEN [custom |-> << >>, target |-> FilterTargetNone, filtered |-> FALSE]
            ELSE ScopeForRepoValue(m, value)

\* the scope state SyncRepoFilterStateFromSearchValue leaves in model m
SyncedScope(m) ==
    LET token == getRepoFilterTokenValue(m.SearchValue)
    IN  IF ~token.ok \/ token.value = << >>
            THEN [custom |-> << >>, target |-> FilterTargetNone, filtered |-> FALSE]
            ELSE ScopeForRepoValue(m, token.value)

SyncRepoFilterStateFromSearchValue ==
    /\ CustomRepoFilter' = SyncedScope(Self).custom
    /\ FilterTarget' = SyncedScope(Self).target
    /\ IsFilteredByCurrentRemote' = SyncedScope(Self).filtered
    /\ query' = NoQuery
    /\ UNCHANGED << SearchValue, IsAuthorFilterRemoved, IsRepoPickerShown,
                    RepoPicker, Config, gitRepo >>

\* repopicker.Model.Blur
Blur(picker) ==
    [picker EXCEPT !.focused = FALSE, !.isCustomMode = FALSE]

\* HandleRepoSelected leaving IsFilteredByCurrentRemote as it is when
\* "All Repositories" is selected
HandleRepoSelectedKeepsFlag(value, isCustom) ==
    /\ RepoPicker' = Blur(RepoPicker)
    /\ IsRepoPickerShown' = FALSE
    /\ CustomRepoFilter' = ScopeForRepoValue(Self, value).custom
    /\ FilterTarget' = ScopeForRepoValue(Self, value).target
    /\ IsFilteredByCurrentRemote' =
           IF value = << >> THEN IsFilteredByCurrentRemote
           ELSE ScopeForRepoValue(Self, value).filtered
    /\ query' = NoQuery
    /\ UNCHANGED << SearchValue, IsAuthorFilterRemoved, Config, gitRepo >>

\* HandleRepoSelected taking a custom entry as a custom filter without
\* comparing it with the remotes
HandleRepoSelectedTrustsCustom(value, isCustom) ==
    /\ RepoPicker' = Blur(RepoPicker)
    /\ IsRepoPickerShown' = FALSE
    /\ IF isCustom /\ value # << >>
           THEN /\ CustomRepoFilter' = value
                /\ FilterTarget' = FilterTargetNone
                /\ IsFilteredByCurrentRemote' = TRUE
           ELSE /\ CustomRepoFilter' = ScopeForRepoValue(Self, value).custom
                /\ FilterTarget' = ScopeForRepoValue(Self, value).target
                /\ IsFilteredByCurrentRemote' = ScopeForRepoValue(Self, value).filtered
    /\ query' = NoQuery
    /\ UNCHANGED << SearchValue, IsAuthorFilterRemoved, Config, gitRepo >>

HandleRepoSelected(value, isCustom) ==
    /\ RepoPicker' = Blur(RepoPicker)
    /\ IsRepoPickerShown' = FALSE
    /\ CustomRepoFilter' = ScopeForRepoValue(Self, value).custom
    /\ FilterTarget' = ScopeForRepoValue(Self, value).target
    /\ IsFilteredByCurrentRemote' = ScopeForRepoValue(Self, value).filtered
    /\ query' = NoQuery
    /\ UNCHANGED << SearchValue, IsAuthorFilterRemoved, Config, gitRepo >>

\* the labels buildRepoPickerOptions formats
OriginLabel   == << "O", "r", "i", "g", "i", "n", ":", " " >>
UpstreamLabel == << "U", "p", "s", "t", "r", "e", "a", "m", ":", " " >>
AllReposLabel == << "A", "l", "l", " ", "R", "e", "p", "o", "s", "i", "t", "o", "r", "i", "e", "s" >>

RepoOption(label, value) ==
    [Label |-> label, Value |-> value]

buildRepoPickerOptions(m) ==
    LET origin       == GetOriginRepo(m)
        upstream     == GetUpstreamRepo(m)
        originRepo   == OwnerSlashName(origin.owner, origin.name)
        upstreamRepo == OwnerSlashName(upstream.owner, upstream.name)
    IN  (IF origin.has
             THEN << RepoOption(OriginLabel \o originRepo, originRepo) >> ELSE << >>)
        \o (IF upstream.has
                THEN << RepoOption(UpstreamLabel \o upstreamRepo, upstreamRepo) >>
                ELSE << >>)
        \o << RepoOption(AllReposLabel, << >>) >>

\* repopicker.Model.SetOptions.  The cursor indexes options from 0 as in the code.
SetOptions(picker, options) ==
    [picker EXCEPT !.options = options, !.cursor = 0]

\* repopicker.Model.SetSelectedValue
SetSelectedValue(picker, value) ==
    LET matching == { i \in DOMAIN picker.options : picker.options[i].Value = value }
        first    == CHOOSE i \in matching : \A j \in matching : i <= j
    IN  [picker EXCEPT !.selectedValue = value,
                       !.cursor = IF matching = {} THEN @ ELSE first - 1]

\* repopicker.Model.Focus
Focus(picker) ==
    [picker EXCEPT !.focused = TRUE, !.isCustomMode = FALSE, !.cursor = 0]

\* the picker ShowRepoPicker leaves in model m
ShownRepoPicker(m, picker) ==
    Focus(SetSelectedValue(SetOptions(picker, buildRepoPickerOptions(m)),
                           getRepoFilterTokenValue(m.SearchValue).value))

ShowRepoPicker ==
    /\ RepoPicker' = ShownRepoPicker(Self, RepoPicker)
    /\ IsRepoPickerShown' = TRUE
    /\ UNCHANGED << SearchValue, FilterTarget, CustomRepoFilter, IsAuthorFilterRemoved,
                    IsFilteredByCurrentRemote, Config, gitRepo, query >>

HideRepoPicker ==
    /\ RepoPicker' = Blur(RepoPicker)
    /\ IsRepoPickerShown' = FALSE
    /\ UNCHANGED << SearchValue, FilterTarget, CustomRepoFilter, IsAuthorFilterRemoved,
                    IsFilteredByCurrentRemote, Config, gitRepo, query >>

\* the remotes of the working directory change outside the program (git remote
\* add / remove / set-url): every lookup reads them afresh
ChangeRemotes(repo) ==
    /\ gitRepo' = repo
    /\ query' = NoQuery
    /\ UNCHANGED << SearchValue, FilterTarget, CustomRepoFilter, IsAuthorFilterRemoved,
                    IsFilteredByCurrentRemote, IsRepoPickerShown, RepoPicker, Config >>

\* GetFilters(): the effective query handed to the data fetch, and
\* GetFilterTargetLabel(): the label shown with it
FetchFilters ==
    /\ query' = [fresh |-> TRUE, value |-> GetFilters(Self),
                 label |-> GetFilterTargetLabel(Self)]
    /\ UNCHANGED << SearchValue, FilterTarget, CustomRepoFilter, IsAuthorFilterRemoved,
                    IsFilteredByCurrentRemote, IsRepoPickerShown, RepoPicker,
                    Config, gitRepo >>

Next ==
    \/ \E text \in EditedSearchValues : SetSearchValue(text) /\ UNCHANGED << last, parsing, lookup, emitted >>
    \/ \E repo \in GitRepos : ChangeRemotes(repo) /\ UNCHANGED << last, parsing, lookup, emitted >>
    \/ ToggleFilterTarget /\ UNCHANGED << last, parsing, lookup, emitted >>
    \/ ToggleAuthorFilter /\ UNCHANGED << last, parsing, lookup, emitted >>
    \/ \E repo \in RepoValues : SetCustomRepoFilter(repo) /\ UNCHANGED << last, parsing, lookup, emitted >>
    \/ ClearCustomRepoFilter /\ UNCHANGED << last, parsing, lookup, emitted >>
    \/ SyncRepoFilterStateFromSearchValue /\ UNCHANGED << last, parsing, lookup, emitted >>
    \/ \E value \in RepoValues, isCustom \in BOOLEAN :
           HandleRepoSelected(value, isCustom) /\ UNCHANGED << last, parsing, lookup, emitted >>
    \/ FetchFilters /\ UNCHANGED << last, parsing, lookup, emitted >>

Spec ==
    Init /\ [][Next]_vars

-----------------------------------------------------------------------------
(* The composer applied to every input: a raw text, a scope state, a       *)
(* configured base filter and a set of remotes.  The scope states drawn    *)
(* are the ones the state machine Spec reaches: every FilterTarget with    *)
(* every CustomRepoFilter and either value of IsAuthorFilterRemoved under  *)
(* every set of remotes (the remotes may change while the program runs),   *)
(* except the ones ScopeReachable excludes.                                *)

\* Under a configured repo: token ToggleFilterTarget does nothing, and every
\* other entry point that sets a custom filter sets FilterTarget to None.
ScopeReachable(config, target, custom) ==
    RepoTokens(Fields(config.Filters)) # << >>
        => (custom = << >> \/ target = FilterTargetNone)

InitCompose ==
    /\ gitRepo \in GitRepos
    /\ Config \in [Filters : ConfigFilters, SmartFilteringAtLaunch : {FALSE}]
    /\ SearchValue \in SearchValues
    /\ FilterTarget \in FilterTargets
    /\ CustomRepoFilter \in RepoValues
    /\ ScopeReachable(Config, FilterTarget, CustomRepoFilter)
    /\ IsAuthorFilterRemoved \in BOOLEAN
    /\ IsFilteredByCurrentRemote =
           (FilterTarget # FilterTargetNone \/ CustomRepoFilter # << >>)
    /\ IsRepoPickerShown = FALSE
    /\ RepoPicker = NewRepoPicker
    /\ query = NoQuery
    /\ last = NoOp
    /\ parsing = NoParse
    /\ lookup = NoLookup
    /\ emitted = NoKey

NextCompose ==
    FetchFilters /\ UNCHANGED << last, parsing, lookup, emitted >>

SpecCompose ==
    InitCompose /\ [][NextCompose]_vars

-----------------------------------------------------------------------------
(* The mutation entry points applied once to every state the state machine *)
(* Spec reaches, with the entry point, its argument and the fields it was  *)
(* called on recorded in the history variable last.  The picker is either  *)
(* as constructed or as ShowRepoPicker has just left it.                   *)

\* the raw text NewModel starts from
LaunchSearchValue ==
    GetConfigFiltersWithCurrentRemoteAdded(Config, gitRepo)

\* IsFilteredByCurrentRemote is set with every non-None FilterTarget; under a
\* configured repo: token ToggleFilterTarget does nothing, so that a custom
\* filter is there only as SetCustomRepoFilter, HandleRepoSelected or
\* SyncRepoFilterStateFromSearchValue left it
FieldsReachable(config, target, custom, filtered) ==
    /\ target # FilterTargetNone => filtered
    /\ RepoTokens(Fields(config.Filters)) # << >>
           => (custom # << >> => (target = FilterTargetNone /\ filtered))

InitOps ==
    /\ gitRepo \in GitRepos
    /\ Config \in Configs
    /\ SearchValue \in EditedSearchValues \cup { LaunchSearchValue }
    /\ FilterTarget \in FilterTargets
    /\ CustomRepoFilter \in RepoValues
    /\ IsFilteredByCurrentRemote \in BOOLEAN
    /\ FieldsReachable(Config, FilterTarget, CustomRepoFilter, IsFilteredByCurrentRemote)
    /\ IsAuthorFilterRemoved \in BOOLEAN
    /\ IsRepoPickerShown \in BOOLEAN
    /\ RepoPicker = IF IsRepoPickerShown THEN ShownRepoPicker(Self, NewRepoPicker)
                                         ELSE NewRepoPicker
    /\ query = NoQuery
    /\ last = NoOp
    /\ parsing = NoParse
    /\ lookup = NoLookup
    /\ emitted = NoKey

\* the next call is the one recorded
Once(op, arg, flag) ==
    /\ last = NoOp
    /\ last' = Called(op, arg, flag)
    /\ UNCHANGED << parsing, lookup, emitted >>

NextOps ==
    \/ Once("ToggleFilterTarget", << >>, FALSE) /\ ToggleFilterTarget
    \/ Once("ToggleAuthorFilter", << >>, FALSE) /\ ToggleAuthorFilter
    \/ \E repo \in RepoValues :
           Once("SetCustomRepoFilter", repo, FALSE) /\ SetCustomRepoFilter(repo)
    \/ Once("ClearCustomRepoFilter", << >>, FALSE) /\ ClearCustomRepoFilter
    \/ Once("SyncRepoFilterStateFromSearchValue", << >>, FALSE)
           /\ SyncRepoFilterStateFromSearchValue
    \/ \E value \in RepoValues, isCustom \in BOOLEAN :
           Once("HandleRepoSelected", value, isCustom) /\ HandleRepoSelected(value, isCustom)
    \/ Once("ShowRepoPicker", << >>, FALSE) /\ ShowRepoPicker
    \/ Once("HideRepoPicker", << >>, FALSE) /\ HideRepoPicker

SpecOps ==
    InitOps /\ [][NextOps]_vars

-----------------------------------------------------------------------------
(* ParseGitHubRepoFromUrl applied to remote URLs built from a form, a      *)
(* host, an owner and a repository name, bare or surrounded by whitespace. *)

\* the forms of a remote URL: SSH and HTTP(S), bare, with a trailing .git, and
\* with the leading (SSH) or trailing (HTTP) slash
SshForms  == { "ssh", "ssh.git", "ssh/" }
HttpForms == { "http", "http.git", "http/", "https", "https.git", "https/" }

RemoteHosts ==
    { << "h" >>, << "g", ".", "h" >> }

\* owners and repository names: non-empty, without a slash; among them names
\* that end in .git or in a space, or have a space inside
RemoteNames ==
    { << "o" >>, << "r" >> \o DotGit, DotGit, << "r", " " >>, << "a", " ", "b" >> }

RemoteUrl(form, host, owner, name) ==
    CASE form = "ssh"       -> GitAt \o host \o << ":" >> \o owner \o Slash \o name
      [] form = "ssh.git"   -> GitAt \o host \o << ":" >> \o owner \o Slash \o name \o DotGit
      [] form = "ssh/"      -> GitAt \o host \o << ":" >> \o Slash \o owner \o Slash \o name
      [] form = "http"      -> HttpScheme \o host \o Slash \o owner \o Slash \o name
      [] form = "http.git"  -> HttpScheme \o host \o Slash \o owner \o Slash \o name \o DotGit
      [] form = "http/"     -> HttpScheme \o host \o Slash \o owner \o Slash \o name \o Slash
      [] form = "https"     -> HttpsScheme \o host \o Slash \o owner \o Slash \o name
      [] form = "https.git" -> HttpsScheme \o host \o Slash \o owner \o Slash \o name \o DotGit
      [] form = "https/"    -> HttpsScheme \o host \o Slash \o owner \o Slash \o name \o Slash

InitParse ==
    /\ gitRepo = [opens |-> FALSE, remotes |-> << >>]
    /\ Config = [Filters |-> << >>, SmartFilteringAtLaunch |-> FALSE]
    /\ SearchValue = << >>
    /\ FilterTarget = FilterTargetNone
    /\ CustomRepoFilter = << >>
    /\ IsAuthorFilterRemoved = FALSE
    /\ IsFilteredByCurrentRemote = FALSE
    /\ IsRepoPickerShown = FALSE
    /\ RepoPicker = NewRepoPicker
    /\ query = NoQuery
    /\ last = NoOp
    /\ \E form \in SshForms \cup HttpForms, host \in RemoteHosts,
          owner \in RemoteNames, name \in RemoteNames, pad \in {0, 1} :
           parsing = [form |-> form, host |-> host, owner |-> owner, name |-> name,
                      pad |-> pad,
                      url |-> Spaces(pad) \o RemoteUrl(form, host, owner, name)
                                  \o Spaces(pad),
                      done |-> FALSE, result |-> ParseResult(<< >>, << >>, ErrNil)]
    /\ lookup = NoLookup
    /\ emitted = NoKey

ParseRemoteUrl ==
    /\ ~parsing.done
    /\ parsing' = [parsing EXCEPT !.done = TRUE,
                                  !.result = ParseGitHubRepoFromUrl(parsing.url)]
    /\ UNCHANGED << SearchValue, FilterTarget, CustomRepoFilter, IsAuthorFilterRemoved,
                    IsFilteredByCurrentRemote, IsRepoPickerShown, RepoPicker, Config,
                    gitRepo, query, last, lookup, emitted >>

NextParse ==
    ParseRemoteUrl

SpecParse ==
    InitParse /\ [][NextParse]_vars

-----------------------------------------------------------------------------
(* ParseGitHubRepoFromUrl and GetRepoShortName applied to texts that need  *)
(* not be remote URLs: a prefix, a host and a tail, bare or surrounded by  *)
(* whitespace.                                                             *)

\* the recognised prefixes, no prefix, and two that are not recognised
UrlPrefixes ==
    { << "g", "i", "t", "@" >>,
      << "h", "t", "t", "p", "s", ":", "/", "/" >>,
      << "h", "t", "t", "p", ":", "/", "/" >>,
      << >>,
      << "f", "t", "p", ":", "/", "/" >>,
      << "s", "s", "h", ":", "/", "/", "g", "i", "t", "@" >> }

\* hosts without a colon or a slash, among them the empty host and a blank one
UrlHosts ==
    { << "h" >>,
      << "g", ".", "h" >>,
      << "g", "i", "t", "h", "u", "b", ".", "c", "o", "m" >>,
      << >>,
      << " " >> }

\* what follows the host: nothing, a separator alone, paths of one, two and
\* three segments, with empty segments, with .git and with trailing slashes
UrlTails ==
    { << >>,
      << ":" >>,
      << ":", "o", "/", "r" >>,
      << ":", "o", "/", "r", ".", "g", "i", "t" >>,
      << ":", "/", "o", "/", "r" >>,
      << ":", "/", "r" >>,
      << ":", "o" >>,
      << ":", "o", "/" >>,
      << ":", "o", "/", "r", "/", "x" >>,
      << ":", "o", "/", "r", "/" >>,
      << ":", "o", "/", "r", "/", ".", "g", "i", "t" >>,
      << ":", ".", "g", "i", "t" >>,
      << ":", "o", ":", "r", "/", "x" >>,
      << "/" >>,
      << "/", "o", "/", "r" >>,
      << "/", "o", "/", "r", ".", "g", "i", "t" >>,
      << "/", "o", "/", "r", "/" >>,
      << "/", "o", "/", "r", ".", "g", "i", "t", "/" >>,
      << "/", "o" >>,
      << "/", "o", "/" >>,
      << "/", "/", "r" >>,
      << "/", "/", "o", "/", "r" >>,
      << "/", "o", "/", "r", "/", "x" >>,
      << "/", "o", "/", "r", "/", ".", "g", "i", "t" >>,
      << "/", ".", "g", "i", "t" >>,
      << "/", "o", "/", "/" >> }

UrlText(prefix, host, tail, pad) ==
    Spaces(pad) \o prefix \o host \o tail \o Spaces(pad)

\* the section is not involved
SectionUnused ==
    /\ gitRepo = [opens |-> FALSE, remotes |-> << >>]
    /\ Config = [Filters |-> << >>, SmartFilteringAtLaunch |-> FALSE]
    /\ SearchValue = << >>
    /\ FilterTarget = FilterTargetNone
    /\ CustomRepoFilter = << >>
    /\ IsAuthorFilterRemoved = FALSE
    /\ IsFilteredByCurrentRemote = FALSE
    /\ IsRepoPickerShown = FALSE
    /\ RepoPicker = NewRepoPicker
    /\ query = NoQuery
    /\ last = NoOp

InitParseText ==
    /\ SectionUnused
    /\ \E prefix \in UrlPrefixes, host \in UrlHosts, tail \in UrlTails, pad \in {0, 1} :
           parsing = [prefix |-> prefix, host |-> host, tail |-> tail, pad |-> pad,
                      url |-> UrlText(prefix, host, tail, pad),
                      done |-> FALSE, result |-> ParseResult(<< >>, << >>, ErrNil),
                      named |-> FALSE, short |-> << >>]
    /\ lookup = NoLookup
    /\ emitted = NoKey

ShortenRemoteUrl ==
    /\ ~parsing.named
    /\ parsing' = [parsing EXCEPT !.named = TRUE,
                                  !.short = GetRepoShortName(parsing.url)]
    /\ UNCHANGED << SearchValue, FilterTarget, CustomRepoFilter, IsAuthorFilterRemoved,
                    IsFilteredByCurrentRemote, IsRepoPickerShown, RepoPicker, Config,
                    gitRepo, query, last, lookup, emitted >>

NextParseText ==
    \/ ParseRemoteUrl
    \/ ShortenRemoteUrl

SpecParseText ==
    InitParseText /\ [][NextParseText]_vars

-----------------------------------------------------------------------------
(* The section from its launch state under the toggles alone: the raw text *)
(* is never edited and the remotes never change.                           *)

NextToggles ==
    \/ ToggleFilterTarget /\ UNCHANGED << last, parsing, lookup, emitted >>
    \/ ToggleAuthorFilter /\ UNCHANGED << last, parsing, lookup, emitted >>
    \/ FetchFilters /\ UNCHANGED << last, parsing, lookup, emitted >>

SpecToggles ==
    Init /\ [][NextToggles]_vars

-----------------------------------------------------------------------------
(* GetOriginUrl and GetUpstreamUrl applied to every list of remotes, with  *)
(* every outcome of gitm.RemoteGetURL: an error, no URL, one URL, two.     *)

\* the longest list of remotes
MaxRemotes == 2

RemoteNameSet ==
    { "origin", "upstream", "Origin", "fork" }

\* what gitm.RemoteGetURL gives for a remote
RemoteOutcomes ==
    { [urls |-> << >>, getUrlFails |-> TRUE],
      [urls |-> << >>, getUrlFails |-> FALSE],
      [urls |-> << SshUrlAB >>, getUrlFails |-> FALSE],
      [urls |-> << HttpsUrlCD, SshUrlAB >>, getUrlFails |-> FALSE] }

LookupRemotes ==
    { [name |-> n, urls |-> o.urls, getUrlFails |-> o.getUrlFails] :
          n \in RemoteNameSet, o \in RemoteOutcomes }

RECURSIVE RemoteLists(_)
RemoteLists(n) ==
    IF n = 0 THEN { << >> }
    ELSE RemoteLists(n - 1)
            \cup { Append(rs, r) : rs \in { l \in RemoteLists(n - 1) : Len(l) = n - 1 },
                                   r \in LookupRemotes }

LookupRepos ==
    { [opens |-> FALSE, remotes |-> << >>] }
        \cup { [opens |-> TRUE, remotes |-> rs] : rs \in RemoteLists(MaxRemotes) }

InitRemotes ==
    /\ gitRepo \in LookupRepos
    /\ Config = [Filters |-> << >>, SmartFilteringAtLaunch |-> FALSE]
    /\ SearchValue = << >>
    /\ FilterTarget = FilterTargetNone
    /\ CustomRepoFilter = << >>
    /\ IsAuthorFilterRemoved = FALSE
    /\ IsFilteredByCurrentRemote = FALSE
    /\ IsRepoPickerShown = FALSE
    /\ RepoPicker = NewRepoPicker
    /\ query = NoQuery
    /\ last = NoOp
    /\ parsing = NoParse
    /\ lookup = NoLookup
    /\ emitted = NoKey

CallGetOriginUrl ==
    /\ ~lookup.done
    /\ lookup' = [op |-> "GetOriginUrl", done |-> TRUE, result |-> GetOriginUrl(gitRepo)]
    /\ UNCHANGED << SearchValue, FilterTarget, CustomRepoFilter, IsAuthorFilterRemoved,
                    IsFilteredByCurrentRemote, IsRepoPickerShown, RepoPicker, Config,
                    gitRepo, query, last, parsing, emitted >>

CallGetUpstreamUrl ==
    /\ ~lookup.done
    /\ lookup' = [op |-> "GetUpstreamUrl", done |-> TRUE,
                  result |-> GetUpstreamUrl(gitRepo)]
    /\ UNCHANGED << SearchValue, FilterTarget, CustomRepoFilter, IsAuthorFilterRemoved,
                    IsFilteredByCurrentRemote, IsRepoPickerShown, RepoPicker, Config,
                    gitRepo, query, last, parsing, emitted >>

NextRemotes ==
    \/ CallGetOriginUrl
    \/ CallGetUpstreamUrl

SpecRemotes ==
    InitRemotes /\ [][NextRemotes]_vars

-----------------------------------------------------------------------------
(* The repository picker on its own (package repopicker): its options are  *)
(* set, a value is preselected, it is focused and blurred, and keys are    *)
(* handed to its Update, in any order.                                     *)

MaxOptions == 3
MaxInput == 2

\* repopicker.DefaultKeyMap
Keys ==
    [Up     |-> {"up", "k"},
     Down   |-> {"down", "j"},
     Select |-> {"enter"},
     Cancel |-> {"esc", "ctrl+c"},
     Custom |-> {"c"}]

\* the keys that are a single printable character
Runes == {"k", "j", "c", " "}

\* the keys pressed: every bound key and the space bar
PickerKeys ==
    Keys.Up \cup Keys.Down \cup Keys.Select \cup Keys.Cancel \cup Keys.Custom \cup {" "}

\* customInput.CharLimit
CharLimit == 100

\* textinput.Model.Update on a key: a printable character is appended up to the
\* character limit, any other key leaves the value alone
customInputUpdate(value, key) ==
    IF key \in Runes /\ Len(value) < CharLimit THEN Append(value, key) ELSE value

RepoSelectedMsg(value, isCustom) == Cmd("RepoSelectedMsg", value, isCustom)

RepoCancelledMsg == Cmd("RepoCancelledMsg", << >>, FALSE)

Blink == Cmd("textinput.Blink", << >>, FALSE)

Updated(picker, cmd) ==
    [picker |-> picker, cmd |-> cmd]

\* repopicker.Model.Update on a key in custom input mode
UpdateCustomMode(picker, key) ==
    IF key \in Keys.Cancel
        THEN Updated([picker EXCEPT !.isCustomMode = FALSE, !.customInput = << >>],
                     NilCmd)
    ELSE IF key \in Keys.Select
        THEN LET value == TrimSpace(picker.customInput)
             IN  IF value # << >>
                     THEN Updated([picker EXCEPT !.focused = FALSE,
                                                 !.isCustomMode = FALSE],
                                  RepoSelectedMsg(value, TRUE))
                     ELSE Updated(picker, NilCmd)
    ELSE Updated([picker EXCEPT !.customInput = customInputUpdate(@, key)],
                 Cmd("customInput.Update", << >>, FALSE))

\* Update in list mode moving the cursor down without looking at the number of
\* options
UpdateListModeDownUnguarded(picker, key) ==
    IF key \in Keys.Up
        THEN Updated([picker EXCEPT !.cursor = IF @ > 0 THEN @ - 1 ELSE @], NilCmd)
    ELSE IF key \in Keys.Down
        THEN Updated([picker EXCEPT !.cursor = @ + 1], NilCmd)
    ELSE IF key \in Keys.Select
        THEN IF Len(picker.options) > 0
                 THEN Updated([picker EXCEPT !.focused = FALSE],
                              RepoSelectedMsg(picker.options[picker.cursor + 1].Value,
                                              FALSE))
                 ELSE Updated(picker, NilCmd)
    ELSE IF key \in Keys.Cancel
        THEN Updated([picker EXCEPT !.focused = FALSE], RepoCancelledMsg)
    ELSE IF key \in Keys.Custom
        THEN Updated([picker EXCEPT !.isCustomMode = TRUE], Blink)
    ELSE Updated(picker, NilCmd)

\* repopicker.Model.Update on a key in list mode
UpdateListMode(picker, key) ==
    IF key \in Keys.Up
        THEN Updated([picker EXCEPT !.cursor = IF @ > 0 THEN @ - 1 ELSE @], NilCmd)
    ELSE IF key \in Keys.Down
        THEN Updated([picker EXCEPT
                          !.cursor = IF @ < Len(picker.options) - 1 THEN @ + 1 ELSE @],
                     NilCmd)
    ELSE IF key \in Keys.Select
        THEN IF Len(picker.options) > 0
                 THEN Updated([picker EXCEPT !.focused = FALSE],
                              RepoSelectedMsg(picker.options[picker.cursor + 1].Value,
                                              FALSE))
                 ELSE Updated(picker, NilCmd)
    ELSE IF key \in Keys.Cancel
        THEN Updated([picker EXCEPT !.focused = FALSE], RepoCancelledMsg)
    ELSE IF key \in Keys.Custom
        THEN Updated([picker EXCEPT !.isCustomMode = TRUE], Blink)
    ELSE Updated(picker, NilCmd)

\* repopicker.Model.Update on a key message
Update(picker, key) ==
    IF ~picker.focused THEN Updated(picker, NilCmd)
    ELSE IF picker.isCustomMode THEN UpdateCustomMode(picker, key)
    ELSE UpdateListMode(picker, key)

\* the options a caller hands to SetOptions: any list of up to n options,
\* duplicates included
OptionLists(n) ==
    LET options == { RepoOption(OriginLabel \o RepoAB, RepoAB),
                     RepoOption(AllReposLabel, << >>) }
    IN  UNION { [1..k -> options] : k \in 0..n }

\* the values a caller hands to SetSelectedValue: of an option or of none
SelectedValues == { << >>, RepoAB, RepoCD }

InitPicker ==
    /\ SectionUnused
    /\ parsing = NoParse
    /\ lookup = NoLookup
    /\ emitted = NoKey

OnlyPicker ==
    UNCHANGED << SearchValue, FilterTarget, CustomRepoFilter, IsAuthorFilterRemoved,
                 IsFilteredByCurrentRemote, IsRepoPickerShown, Config, gitRepo,
                 query, last, parsing, lookup >>

CallSetOptions(options) ==
    /\ RepoPicker' = SetOptions(RepoPicker, options)
    /\ emitted' = NoKey
    /\ OnlyPicker

CallSetSelectedValue(value) ==
    /\ RepoPicker' = SetSelectedValue(RepoPicker, value)
    /\ emitted' = NoKey
    /\ OnlyPicker

CallFocus ==
    /\ RepoPicker' = Focus(RepoPicker)
    /\ emitted' = NoKey
    /\ OnlyPicker

CallBlur ==
    /\ RepoPicker' = Blur(RepoPicker)
    /\ emitted' = NoKey
    /\ OnlyPicker

CallUpdate(key) ==
    LET updated == Update(RepoPicker, key)
    IN  /\ Len(updated.picker.customInput) <= MaxInput
        /\ RepoPicker' = updated.picker
        /\ emitted' = [key |-> key, cmd |-> updated.cmd,
                       wasFocused |-> RepoPicker.focused,
                       wasCustomMode |-> RepoPicker.isCustomMode,
                       unchanged |-> (updated.picker = RepoPicker)]
        /\ OnlyPicker

NextPicker ==
    \/ \E options \in OptionLists(MaxOptions) : CallSetOptions(options)
    \/ \E value \in SelectedValues : CallSetSelectedValue(value)
    \/ CallFocus
    \/ CallBlur
    \/ \E key \in PickerKeys : CallUpdate(key)

SpecPicker ==
    InitPicker /\ [][NextPicker]_vars

-----------------------------------------------------------------------------
(* The vocabulary of the properties: the composed query and the expanded   *)
(* text as token sequences, and the remotes' identities.                   *)

Fresh          == query.fresh
QueryTokens    == Fields(query.value)
ExpandedTokens == Fields(enrichSearchWithTemplateVars(Self))

IsRepoToken(token) == HasPrefix(token, RepoPrefix)
OnlyRepo(tokens)   == SelectSeq(tokens, IsRepoToken)
NonRepo(tokens)    == SelectSeq(tokens, LAMBDA t : ~IsRepoToken(t))
OnlyAuthor(tokens) == SelectSeq(tokens, LAMBDA t : t = AuthorMe)
NoAuthorMe(tokens) == SelectSeq(tokens, LAMBDA t : t # AuthorMe)
\* the tokens left by author suppression in the current state
Suppressed(tokens) == IF IsAuthorFilterRemoved THEN NoAuthorMe(tokens) ELSE tokens

\* the values of the repo: tokens, in order
RepoValuesOf(tokens) ==
    [i \in DOMAIN OnlyRepo(tokens) |-> TrimPrefix(OnlyRepo(tokens)[i], RepoPrefix)]

HasSpace(s)   == \E i \in DOMAIN s : IsSpace(s[i])
ConfigHasRepo == \E i \in DOMAIN Fields(Config.Filters) : IsRepoToken(Fields(Config.Filters)[i])

Origin       == GetOriginRepo(Self)
Upstream     == GetUpstreamRepo(Self)
OriginName   == OwnerSlashName(Origin.owner, Origin.name)
UpstreamName == OwnerSlashName(Upstream.owner, Upstream.name)
\* the remote FilterTarget names (for Origin and Upstream)
TargetRemote == IF FilterTarget = FilterTargetOrigin THEN Origin ELSE Upstream
TargetName   == OwnerSlashName(TargetRemote.owner, TargetRemote.name)

\* the identity auto-scoping produces for the current FilterTarget, as a set of
\* at most one value: the target's identity, for Upstream the origin's when the
\* upstream does not resolve, nothing for None or when nothing resolves
AutoValues ==
    IF FilterTarget = FilterTargetOrigin
        THEN (IF Origin.has THEN {OriginName} ELSE {})
    ELSE IF FilterTarget = FilterTargetUpstream
        THEN (IF Upstream.has THEN {UpstreamName}
              ELSE IF Origin.has THEN {OriginName} ELSE {})
    ELSE {}

\* the model after SyncRepoFilterStateFromSearchValue has run on raw text q
SyncedFrom(m, q) ==
    LET scope == SyncedScope([m EXCEPT !.SearchValue = q])
    IN  [m EXCEPT !.CustomRepoFilter = scope.custom, !.FilterTarget = scope.target]

-----------------------------------------------------------------------------
(* C1  Compose/sync round trip: with q the query composed from the raw     *)
(* text in scope state S, and S' the scope state SyncRepoFilterState-      *)
(* FromSearchValue leaves when run on q from S, composing the same raw     *)
(* text in S' gives q again.                                               *)
C1_RoundTrip ==
    Fresh => GetSearchValue(SyncedFrom(Self, query.value)) = query.value

(* C2  Configuration precedence: when the configured base filter has a     *)
(* repo: token, the composed query is the expanded text with its tokens    *)
(* untouched, author suppression apart, whatever FilterTarget,             *)
(* CustomRepoFilter and the remotes are.                                   *)
C2_ConfigPrecedence ==
    (Fresh /\ ConfigHasRepo) => QueryTokens = Suppressed(ExpandedTokens)

(* C3  Custom override, as claimed: with CustomRepoFilter non-empty and no *)
(* repo: token in the configured base filter, the composed query is the    *)
(* single token repo:<CustomRepoFilter> followed by the non-repo: tokens   *)
(* of the expanded text in their order.                                    *)
C3_CustomOverride ==
    (Fresh /\ CustomRepoFilter # << >> /\ ~ConfigHasRepo)
        => QueryTokens = << RepoToken(CustomRepoFilter) >> \o NonRepo(ExpandedTokens)

(* C3  as amended: for a CustomRepoFilter without whitespace the composed  *)
(* query is the single token repo:<CustomRepoFilter> followed by the       *)
(* non-repo: tokens of the expanded text in their order, less the          *)
(* author:@me tokens when IsAuthorFilterRemoved.                           *)
C3_CustomOverrideAmended ==
    (Fresh /\ CustomRepoFilter # << >> /\ ~HasSpace(CustomRepoFilter) /\ ~ConfigHasRepo)
        => QueryTokens = << RepoToken(CustomRepoFilter) >>
                             \o Suppressed(NonRepo(ExpandedTokens))

\* a custom filter replaces a typed repo: token and author:@me is suppressed
C3_Witness ==
    /\ Fresh /\ CustomRepoFilter = RepoCD /\ ~ConfigHasRepo
    /\ IsAuthorFilterRemoved
    /\ OnlyRepo(ExpandedTokens) # << >>
    /\ OnlyAuthor(ExpandedTokens) # << >>
    /\ NonRepo(NoAuthorMe(ExpandedTokens)) # << >>
    /\ FilterTarget = FilterTargetOrigin /\ Origin.has

(* C4  Manual repo filter wins, as claimed: with CustomRepoFilter empty    *)
(* and no repo: token in the configured base filter, if the expanded text  *)
(* contains a repo: token whose value is not the identity auto-scoping     *)
(* produces for the current FilterTarget, the repo: tokens of the query    *)
(* are those of the text as typed: none removed, none added.               *)
C4_ManualWins ==
    (/\ Fresh /\ CustomRepoFilter = << >> /\ ~ConfigHasRepo
     /\ \E i \in DOMAIN RepoValuesOf(ExpandedTokens) :
            RepoValuesOf(ExpandedTokens)[i] \notin AutoValues)
        => OnlyRepo(QueryTokens) = OnlyRepo(ExpandedTokens)

(* C4  as amended: if the FIRST repo: token of the expanded text has a     *)
(* value that is not the identity auto-scoping produces for the current    *)
(* FilterTarget, the query is the expanded text's tokens as typed (author  *)
(* suppression apart): no repo: token removed, overwritten or added.       *)
C4_ManualWinsFirstToken ==
    (/\ Fresh /\ CustomRepoFilter = << >> /\ ~ConfigHasRepo
     /\ OnlyRepo(ExpandedTokens) # << >>
     /\ RepoValuesOf(ExpandedTokens)[1] \notin AutoValues)
        => QueryTokens = Suppressed(ExpandedTokens)

\* FilterTarget is Origin, origin resolves, and the text names another repository
C4_Witness ==
    /\ Fresh /\ CustomRepoFilter = << >> /\ ~ConfigHasRepo
    /\ FilterTarget = FilterTargetOrigin /\ Origin.has
    /\ OnlyRepo(ExpandedTokens) # << >>
    /\ RepoValuesOf(ExpandedTokens)[1] # OriginName
    /\ OnlyRepo(QueryTokens) = OnlyRepo(ExpandedTokens)

(* C5  Auto-scoping: with CustomRepoFilter empty, no repo: token in the    *)
(* configured base filter and no manual repo: token in the text, if        *)
(* FilterTarget is Origin or Upstream and that same remote resolves, the   *)
(* query is repo:<owner>/<name> of that remote followed by the remaining   *)
(* tokens of the text; for Upstream whether or not origin resolves.        *)
C5_AutoScoping ==
    (/\ Fresh /\ CustomRepoFilter = << >> /\ ~ConfigHasRepo
     /\ \A i \in DOMAIN RepoValuesOf(ExpandedTokens) :
            RepoValuesOf(ExpandedTokens)[i] \in AutoValues
     /\ FilterTarget # FilterTargetNone /\ TargetRemote.has)
        => QueryTokens = << RepoToken(TargetName) >>
                             \o Suppressed(NonRepo(ExpandedTokens))

(* C6  Degraded scoping: with CustomRepoFilter empty and no repo: token in *)
(* the configured base filter or the text, FilterTarget = Upstream with an *)
(* unresolvable upstream composes with the origin identity when origin     *)
(* resolves; when neither remote resolves the query has no repo: token     *)
(* for any FilterTarget and still holds the remaining tokens of the text.  *)
C6_DegradedScoping ==
    (Fresh /\ CustomRepoFilter = << >> /\ ~ConfigHasRepo /\ OnlyRepo(ExpandedTokens) = << >>)
        => /\ (FilterTarget = FilterTargetUpstream /\ ~Upstream.has /\ Origin.has)
                  => QueryTokens = << RepoToken(OriginName) >> \o Suppressed(ExpandedTokens)
           /\ (~Upstream.has /\ ~Origin.has)
                  => QueryTokens = Suppressed(ExpandedTokens)

\* FilterTarget is Upstream, the upstream remote is gone and origin resolves
C6_Witness ==
    /\ Fresh /\ CustomRepoFilter = << >> /\ ~ConfigHasRepo
    /\ OnlyRepo(ExpandedTokens) = << >> /\ ExpandedTokens # << >>
    /\ FilterTarget = FilterTargetUpstream /\ ~Upstream.has /\ Origin.has
    /\ OnlyRepo(QueryTokens) = << RepoToken(OriginName) >>

(* C7  Single repo token: in every state and for every raw text the        *)
(* composed query has at most one token that starts with repo:.            *)
C7_SingleRepoToken ==
    Fresh => Len(OnlyRepo(QueryTokens)) <= 1

(* C8  Token order: whenever the composed query has a repo: token, that    *)
(* token is the first token and the tokens after it are the text's tokens  *)
(* in their order without the repo: tokens and, if suppressed, without     *)
(* the author:@me tokens; on every path, the manual-override path too.     *)
C8_TokenOrder ==
    (Fresh /\ OnlyRepo(QueryTokens) # << >>)
        => /\ IsRepoToken(QueryTokens[1])
           /\ Tail(QueryTokens) = Suppressed(NonRepo(ExpandedTokens))

(* C9  Whitespace normalisation: for every state and every raw text the    *)
(* composed query has no leading or trailing whitespace and its tokens     *)
(* are separated by exactly one space.                                     *)
C9_WhitespaceNormalised ==
    Fresh => query.value = Join(Fields(query.value), Space)

(* C10  Author suppression is orthogonal: the tokens composed with         *)
(* IsAuthorFilterRemoved = TRUE are the tokens composed with it FALSE less  *)
(* every token equal to author:@me (so the repo: token is the same in      *)
(* both), and with the flag FALSE no author:@me token is removed.          *)
C10_AuthorOrthogonal ==
    Fresh =>
        LET toggled == Fields(GetSearchValue(
                           [Self EXCEPT !.IsAuthorFilterRemoved = ~IsAuthorFilterRemoved]))
        IN  IF IsAuthorFilterRemoved
                THEN /\ QueryTokens = NoAuthorMe(toggled)
                     /\ OnlyRepo(QueryTokens) = OnlyRepo(toggled)
                ELSE /\ toggled = NoAuthorMe(QueryTokens)
                     /\ OnlyRepo(QueryTokens) = OnlyRepo(toggled)
                     /\ OnlyAuthor(QueryTokens) = OnlyAuthor(ExpandedTokens)

\* author:@me is suppressed from a query that carries an auto-applied repo: token
C10_Witness ==
    /\ Fresh /\ IsAuthorFilterRemoved
    /\ OnlyAuthor(ExpandedTokens) # << >>
    /\ OnlyAuthor(QueryTokens) = << >>
    /\ OnlyRepo(QueryTokens) = << RepoToken(OriginName) >>
    /\ NonRepo(QueryTokens) # << >>

-----------------------------------------------------------------------------
(* The vocabulary of the properties of single entry points (SpecOps).      *)

Did(op) == last.op = op
Pre     == last.pre

\* the repo: tokens of the raw text and the value of the first one
RawRepoTokens  == OnlyRepo(Fields(SearchValue))
FirstRepoValue == TrimPrefix(RawRepoTokens[1], RepoPrefix)

(* C11  SyncRepoFilterStateFromSearchValue decision table: after the sync, *)
(* (a) a text without repo: token leaves CustomRepoFilter empty and        *)
(* FilterTarget None; (b) else a first repo: value equal to the resolvable *)
(* origin identity leaves CustomRepoFilter empty and FilterTarget Origin;  *)
(* (c) else one equal to the resolvable upstream identity leaves it empty  *)
(* with FilterTarget Upstream; (d) otherwise CustomRepoFilter is the first *)
(* repo: value and FilterTarget is None.  The text itself is not changed.  *)
C11_SyncDecisionTable ==
    Did("SyncRepoFilterStateFromSearchValue") =>
        /\ SearchValue = Pre.SearchValue
        /\ IF RawRepoTokens = << >>
               THEN CustomRepoFilter = << >> /\ FilterTarget = FilterTargetNone
           ELSE IF Origin.has /\ FirstRepoValue = OriginName
               THEN CustomRepoFilter = << >> /\ FilterTarget = FilterTargetOrigin
           ELSE IF Upstream.has /\ FirstRepoValue = UpstreamName
               THEN CustomRepoFilter = << >> /\ FilterTarget = FilterTargetUpstream
           ELSE CustomRepoFilter = FirstRepoValue /\ FilterTarget = FilterTargetNone

\* a text with two repo: tokens, of which the second names origin, is synced
\* to the custom filter of the first
C11_Witness ==
    /\ Did("SyncRepoFilterStateFromSearchValue")
    /\ Len(RawRepoTokens) = 2
    /\ Origin.has /\ RawRepoTokens[2] = RepoToken(OriginName)
    /\ FirstRepoValue # OriginName
    /\ Pre.FilterTarget = FilterTargetOrigin /\ Pre.CustomRepoFilter = << >>
    /\ CustomRepoFilter = FirstRepoValue /\ FilterTarget = FilterTargetNone

\* model m after n calls of ToggleFilterTarget, the remotes staying as they are
RECURSIVE AfterToggles(_, _)
AfterToggles(m, n) ==
    IF n = 0 THEN m
    ELSE LET before == AfterToggles(m, n - 1)
         IN  IF HasRepoNameInConfiguredFilter(before) THEN before
             ELSE [before EXCEPT !.FilterTarget = CycledFilterTarget(before)]

\* the FilterTarget the cycle prescribes after target
CycleSuccessor(target) ==
    CASE target = FilterTargetOrigin ->
             IF Upstream.has THEN FilterTargetUpstream ELSE FilterTargetNone
      [] target = FilterTargetUpstream -> FilterTargetNone
      [] target = FilterTargetNone -> FilterTargetOrigin

(* C12  ToggleFilterTarget cycle, as claimed: without a repo: token in the *)
(* configured base filter a toggle moves Origin -> Upstream -> None ->     *)
(* Origin if upstream resolves and Origin -> None -> Origin if not         *)
(* (Upstream -> None in both cases); with the remotes unchanged, toggling  *)
(* from any FilterTarget is back at it after at most three toggles and is  *)
(* at Upstream after a toggle only when upstream resolves.                 *)
C12_ToggleCycle ==
    ~ConfigHasRepo =>
        /\ Did("ToggleFilterTarget") => FilterTarget = CycleSuccessor(Pre.FilterTarget)
        /\ \E n \in 1..3 : AfterToggles(Self, n).FilterTarget = FilterTarget
        /\ \A n \in 1..3 :
               AfterToggles(Self, n).FilterTarget = FilterTargetUpstream => Upstream.has

(* C12  as amended: the same, the return within three toggles being        *)
(* claimed only from a FilterTarget the cycle itself reaches, that is not  *)
(* from Upstream when upstream does not resolve.                           *)
C12_ToggleCycleAmended ==
    ~ConfigHasRepo =>
        /\ Did("ToggleFilterTarget") => FilterTarget = CycleSuccessor(Pre.FilterTarget)
        /\ (FilterTarget = FilterTargetUpstream => Upstream.has)
               => \E n \in 1..3 : AfterToggles(Self, n).FilterTarget = FilterTarget
        /\ \A n \in 1..3 :
               AfterToggles(Self, n).FilterTarget = FilterTargetUpstream => Upstream.has

\* a toggle has moved Origin to Upstream, two more lead back to Upstream's
\* predecessor Origin and the third to Upstream
C12_Witness ==
    /\ ~ConfigHasRepo /\ Did("ToggleFilterTarget")
    /\ Pre.FilterTarget = FilterTargetOrigin /\ FilterTarget = FilterTargetUpstream
    /\ AfterToggles(Self, 1).FilterTarget = FilterTargetNone
    /\ AfterToggles(Self, 2).FilterTarget = FilterTargetOrigin
    /\ AfterToggles(Self, 3).FilterTarget = FilterTargetUpstream

(* C13  ToggleFilterTarget under explicit configuration: when the          *)
(* configured base filter has a repo: token, a toggle leaves FilterTarget, *)
(* CustomRepoFilter, IsAuthorFilterRemoved and IsFilteredByCurrentRemote   *)
(* (and the raw text and the picker flag) as they were, from every state.  *)
C13_ToggleNoOpUnderConfig ==
    (Did("ToggleFilterTarget") /\ ConfigHasRepo) => WrittenFields = Pre

\* a toggle was called on FilterTarget Origin with a resolvable upstream, under
\* a configured repo: token, and FilterTarget is still Origin
C13_Witness ==
    /\ Did("ToggleFilterTarget") /\ ConfigHasRepo
    /\ Upstream.has
    /\ Pre.FilterTarget = FilterTargetOrigin /\ FilterTarget = FilterTargetOrigin

(* C14  ToggleFilterTarget frame, as claimed: from every state a toggle    *)
(* changes neither CustomRepoFilter nor IsAuthorFilterRemoved nor the raw  *)
(* text; and called in a state SetCustomRepoFilter(v) leaves for non-empty *)
(* v, it moves FilterTarget away from None while CustomRepoFilter stays v. *)
C14_ToggleFrame ==
    Did("ToggleFilterTarget") =>
        /\ CustomRepoFilter = Pre.CustomRepoFilter
        /\ IsAuthorFilterRemoved = Pre.IsAuthorFilterRemoved
        /\ SearchValue = Pre.SearchValue
        /\ (/\ Pre.CustomRepoFilter # << >>
            /\ Pre.FilterTarget = FilterTargetNone
            /\ Pre.IsFilteredByCurrentRemote)
               => FilterTarget # FilterTargetNone

(* C14  as amended: the frame holds from every state; the move away from   *)
(* None after SetCustomRepoFilter(v) is claimed when the configured base   *)
(* filter has no repo: token.                                              *)
C14_ToggleFrameAmended ==
    Did("ToggleFilterTarget") =>
        /\ CustomRepoFilter = Pre.CustomRepoFilter
        /\ IsAuthorFilterRemoved = Pre.IsAuthorFilterRemoved
        /\ SearchValue = Pre.SearchValue
        /\ (/\ ~ConfigHasRepo
            /\ Pre.CustomRepoFilter # << >>
            /\ Pre.FilterTarget = FilterTargetNone
            /\ Pre.IsFilteredByCurrentRemote)
               => FilterTarget = FilterTargetOrigin

\* a toggle in the state SetCustomRepoFilter("c/d") leaves: FilterTarget moves
\* to Origin and the custom filter stays
C14_Witness ==
    /\ Did("ToggleFilterTarget") /\ ~ConfigHasRepo
    /\ Pre.CustomRepoFilter = RepoCD /\ Pre.FilterTarget = FilterTargetNone
    /\ Pre.IsFilteredByCurrentRemote
    /\ FilterTarget = FilterTargetOrigin /\ CustomRepoFilter = RepoCD

(* C15  SetCustomRepoFilter(value): for a non-empty value CustomRepoFilter  *)
(* is value and FilterTarget is None afterwards, whatever FilterTarget     *)
(* was; for the empty value (and for ClearCustomRepoFilter)                *)
(* CustomRepoFilter is empty and FilterTarget is unchanged;                *)
(* IsAuthorFilterRemoved is unchanged in every case.                       *)
C15_SetCustomFilter ==
    /\ Did("SetCustomRepoFilter") =>
           /\ CustomRepoFilter = last.arg
           /\ FilterTarget = IF last.arg # << >> THEN FilterTargetNone
                                                 ELSE Pre.FilterTarget
           /\ IsAuthorFilterRemoved = Pre.IsAuthorFilterRemoved
    /\ Did("ClearCustomRepoFilter") =>
           /\ CustomRepoFilter = << >>
           /\ FilterTarget = Pre.FilterTarget
           /\ IsAuthorFilterRemoved = Pre.IsAuthorFilterRemoved

\* a custom filter was set while FilterTarget was Upstream
C15_Witness ==
    /\ Did("SetCustomRepoFilter") /\ last.arg = RepoCD
    /\ Pre.FilterTarget = FilterTargetUpstream /\ Pre.CustomRepoFilter = << >>
    /\ FilterTarget = FilterTargetNone /\ CustomRepoFilter = RepoCD

(* C16  HandleRepoSelected(value, isCustom): the empty value gives         *)
(* FilterTarget None and an empty CustomRepoFilter; a value equal to the   *)
(* resolvable origin identity gives Origin with an empty CustomRepoFilter; *)
(* else one equal to the resolvable upstream identity gives Upstream with  *)
(* an empty CustomRepoFilter; any other value gives CustomRepoFilter =     *)
(* value with FilterTarget None.  This is so for isCustom true and false,  *)
(* the picker is hidden afterwards and IsAuthorFilterRemoved is unchanged. *)
C16_HandleRepoSelected ==
    Did("HandleRepoSelected") =>
        /\ IF last.arg = << >>
               THEN CustomRepoFilter = << >> /\ FilterTarget = FilterTargetNone
           ELSE IF Origin.has /\ last.arg = OriginName
               THEN CustomRepoFilter = << >> /\ FilterTarget = FilterTargetOrigin
           ELSE IF Upstream.has /\ last.arg = UpstreamName
               THEN CustomRepoFilter = << >> /\ FilterTarget = FilterTargetUpstream
           ELSE CustomRepoFilter = last.arg /\ FilterTarget = FilterTargetNone
        /\ ~IsRepoPickerShown /\ ~RepoPicker.focused /\ ~RepoPicker.isCustomMode
        /\ IsAuthorFilterRemoved = Pre.IsAuthorFilterRemoved

\* the upstream identity was entered as a custom value in the shown picker
\* while a custom filter was set
C16_Witness ==
    /\ Did("HandleRepoSelected") /\ last.flag
    /\ Upstream.has /\ last.arg = UpstreamName /\ UpstreamName # OriginName
    /\ Pre.IsRepoPickerShown /\ Pre.CustomRepoFilter # << >>
    /\ FilterTarget = FilterTargetUpstream /\ CustomRepoFilter = << >>
    /\ ~IsRepoPickerShown

\* the written fields with the author flag flipped
AuthorFlipped(fields) ==
    [fields EXCEPT !.IsAuthorFilterRemoved = ~@]

(* C17  ToggleAuthorFilter flips IsAuthorFilterRemoved and changes nothing *)
(* else (FilterTarget, CustomRepoFilter, the raw text); a second toggle    *)
(* restores the fields the first was called on; and no other entry point   *)
(* (ToggleFilterTarget, SetCustomRepoFilter, ClearCustomRepoFilter,        *)
(* HandleRepoSelected, SyncRepoFilterStateFromSearchValue, Show- and       *)
(* HideRepoPicker) changes IsAuthorFilterRemoved.                          *)
C17_ToggleAuthorFilter ==
    /\ Did("ToggleAuthorFilter") =>
           /\ WrittenFields = AuthorFlipped(Pre)
           /\ AuthorFlipped(WrittenFields) = Pre
    /\ (~Did("ToggleAuthorFilter") /\ ~Did("none")) =>
           IsAuthorFilterRemoved = Pre.IsAuthorFilterRemoved

\* the author filter was restored by a toggle while a custom filter was set
C17_Witness ==
    /\ Did("ToggleAuthorFilter")
    /\ Pre.IsAuthorFilterRemoved /\ ~IsAuthorFilterRemoved
    /\ CustomRepoFilter # << >> /\ FilterTarget = FilterTargetOrigin

-----------------------------------------------------------------------------
(* Properties of the state machine Spec.                                   *)

(* C18  Initial scope state: at creation FilterTarget is Origin exactly    *)
(* when smart filtering at launch is enabled, the origin remote resolves   *)
(* to an identity and the configured base filter has no repo: token (the   *)
(* launch text then differs from the base filter); otherwise it is None.   *)
(* CustomRepoFilter is empty and IsAuthorFilterRemoved is false.           *)
C18_InitialScope ==
    Init =>
        /\ FilterTarget =
               IF Config.SmartFilteringAtLaunch /\ Origin.has /\ ~ConfigHasRepo
                   THEN FilterTargetOrigin ELSE FilterTargetNone
        /\ (FilterTarget = FilterTargetOrigin) = (SearchValue # Config.Filters)
        /\ CustomRepoFilter = << >>
        /\ ~IsAuthorFilterRemoved

\* a model created with smart filtering in a repository with an origin
C18_Witness ==
    /\ Init
    /\ Config.SmartFilteringAtLaunch /\ Origin.has /\ ~ConfigHasRepo
    /\ FilterTarget = FilterTargetOrigin /\ SearchValue # Config.Filters

(* C19  GetFilterTargetLabel returns CustomRepoFilter when it is not       *)
(* empty; otherwise owner/name of origin (upstream) when FilterTarget is   *)
(* Origin (Upstream) and that remote resolves, the literal "origin"        *)
(* ("upstream") when it does not, without falling back to the other        *)
(* remote; and the literal "all" when FilterTarget is None.                *)
C19_FilterTargetLabel ==
    Fresh =>
        query.label =
            IF CustomRepoFilter # << >> THEN CustomRepoFilter
            ELSE IF FilterTarget = FilterTargetNone THEN LabelAll
            ELSE IF TargetRemote.has THEN TargetName
            ELSE IF FilterTarget = FilterTargetOrigin THEN LabelOrigin
            ELSE LabelUpstream

\* FilterTarget is Upstream, only origin resolves, and the label is "upstream"
C19_Witness ==
    /\ Fresh /\ CustomRepoFilter = << >>
    /\ FilterTarget = FilterTargetUpstream /\ ~Upstream.has /\ Origin.has
    /\ query.label = LabelUpstream

-----------------------------------------------------------------------------
(* Properties of the remote URL parser (SpecParse).                        *)

\* the URL ends with the repository name itself
NameEndsUrl == parsing.form \in { "ssh", "ssh/", "http", "https" }

(* C20  ParseGitHubRepoFromUrl accepts every well-formed remote, as        *)
(* claimed: for all non-empty O and R without a slash and any host H the   *)
(* inputs git@H:O/R, git@H:O/R.git, git@H:/O/R, http(s)://H/O/R,           *)
(* http(s)://H/O/R.git and http(s)://H/O/R/, bare or surrounded by         *)
(* whitespace, parse without error to exactly (O, R).                      *)
C20_ParseAcceptsWellFormed ==
    parsing.done =>
        parsing.result = ParseResult(parsing.owner, parsing.name, ErrNil)

(* C20  as amended: the same for every R that does not end in .git and,    *)
(* where the URL ends with R itself, does not end in whitespace.           *)
C20_ParseAcceptsWellFormedAmended ==
    (/\ parsing.done
     /\ ~HasSuffix(parsing.name, DotGit)
     /\ NameEndsUrl => ~IsSpace(parsing.name[Len(parsing.name)]))
        => parsing.result = ParseResult(parsing.owner, parsing.name, ErrNil)

\* git@g.h:/a b/o surrounded by whitespace has parsed to ("a b", "o")
C20_Witness ==
    /\ parsing.done /\ parsing.form = "ssh/" /\ parsing.pad = 1
    /\ parsing.host = << "g", ".", "h" >>
    /\ parsing.owner = << "a", " ", "b" >> /\ parsing.name = << "o" >>
    /\ parsing.result = ParseResult(<< "a", " ", "b" >>, << "o" >>, ErrNil)

-----------------------------------------------------------------------------
(* Properties of the remote URL parser on arbitrary texts (SpecParseText). *)

Parsed == parsing.done
Err    == parsing.result.err

Contains(s, c) == \E i \in DOMAIN s : s[i] = c

HasUrlPrefix(s)  == HasPrefix(s, GitAt) \/ HasPrefix(s, HttpScheme) \/ HasPrefix(s, HttpsScheme)
HasHttpPrefix(s) == HasPrefix(s, HttpScheme) \/ HasPrefix(s, HttpsScheme)
AfterScheme(s) ==
    IF HasPrefix(s, HttpsScheme) THEN SliceFrom(s, Len(HttpsScheme))
    ELSE SliceFrom(s, Len(HttpScheme))

\* the input with the surrounding whitespace removed, and with one trailing
\* slash removed as well
TrimmedUrl    == TrimSpace(parsing.url)
NormalisedUrl == TrimSuffix(TrimmedUrl, Slash)

\* the three prefix and separator errors decided on the text s
PrefixErrorsOn(s) ==
    /\ (Err = ErrUnsupported) <=> ~HasUrlPrefix(s)
    /\ (HasPrefix(s, GitAt) /\ ~Contains(s, ":")) => Err = ErrMissingColon
    /\ (HasHttpPrefix(s) /\ ~Contains(AfterScheme(s), "/")) => Err = ErrMissingPath
    /\ Cardinality({ ErrUnsupported, ErrMissingColon, ErrMissingPath, ErrNil }) = 4

(* C21  Prefix and separator errors, as claimed: the result is             *)
(* UnsupportedFormat exactly when the whitespace-trimmed input starts with *)
(* none of git@, http://, https://; an input starting with git@ without a  *)
(* colon fails with MissingColonSeparator; an input starting with http://  *)
(* or https:// without a slash after the host fails with MissingPath; the  *)
(* three are distinct errors, never an identity.                           *)
C21_PrefixErrors ==
    Parsed => PrefixErrorsOn(TrimmedUrl)

(* C21  as amended: the same, decided on the input after the surrounding   *)
(* whitespace and then one trailing slash have been removed.               *)
C21_PrefixErrorsAmended ==
    Parsed => PrefixErrorsOn(NormalisedUrl)

\* "https://" has been parsed: without its trailing slash it has no recognised
\* prefix
C21_Witness ==
    /\ Parsed /\ TrimmedUrl = HttpsScheme
    /\ Err = ErrUnsupported

\* the separator of the form is there: a colon in the SSH form, a slash after
\* the host in the HTTP(S) forms
SeparatorPresent(s) ==
    \/ HasPrefix(s, GitAt) /\ Contains(s, ":")
    \/ HasHttpPrefix(s) /\ Contains(AfterScheme(s), "/")

\* what follows the separator
PathOf(s) ==
    IF HasPrefix(s, GitAt) THEN SliceFrom(s, Index(s, ":") + 1)
    ELSE SliceFrom(AfterScheme(s), Index(AfterScheme(s), "/") + 1)

\* the path with a leading slash, a trailing .git and a trailing slash removed,
\* whatever the form
StrippedPath(s) ==
    TrimSuffix(TrimSuffix(TrimPrefix(PathOf(s), Slash), DotGit), Slash)

\* the path as each form strips it: a trailing .git and then a leading slash in
\* the SSH form, a trailing .git and then a trailing slash in the HTTP(S) forms
StrippedPathOfForm(s) ==
    IF HasPrefix(s, GitAt) THEN TrimPrefix(TrimSuffix(PathOf(s), DotGit), Slash)
    ELSE TrimSuffix(TrimSuffix(PathOf(s), DotGit), Slash)

\* exactly one slash, with something before it and something after it
TwoSegments(path) ==
    \E i \in 2..(Len(path) - 1) :
        /\ path[i] = "/"
        /\ \A j \in DOMAIN path : j # i => path[j] # "/"

IsOwnerRepoError == Err \in { ErrSSHOwnerRepo, ErrHTTPSOwnerRepo }

\* an identity has a non-empty owner and a non-empty name without a slash
IdentityShape ==
    Err = ErrNil =>
        /\ parsing.result.owner # << >> /\ ~Contains(parsing.result.owner, "/")
        /\ parsing.result.name # << >>  /\ ~Contains(parsing.result.name, "/")

(* C22  Path shape, as claimed: for an input with a recognised prefix and  *)
(* its separator, parsing fails with MalformedOwnerRepo exactly when the   *)
(* path, after a leading slash, a trailing .git and a trailing slash are   *)
(* removed, is not two non-empty segments around one slash; every identity *)
(* has a non-empty owner and name without a slash.                         *)
C22_PathShape ==
    Parsed =>
        /\ SeparatorPresent(TrimmedUrl)
               => (IsOwnerRepoError <=> ~TwoSegments(StrippedPath(TrimmedUrl)))
        /\ IdentityShape

(* C22  as amended: the same, with the prefix, the separator and the path  *)
(* taken from the input after its surrounding whitespace and one trailing  *)
(* slash are removed, and the path stripped as its form strips it; when    *)
(* the path is two segments the parse succeeds.                            *)
C22_PathShapeAmended ==
    Parsed =>
        /\ SeparatorPresent(NormalisedUrl)
               => /\ IsOwnerRepoError <=> ~TwoSegments(StrippedPathOfForm(NormalisedUrl))
                  /\ Err = ErrNil <=> TwoSegments(StrippedPathOfForm(NormalisedUrl))
        /\ IdentityShape

\* https://h/o/ has failed with MalformedOwnerRepo: its path is the one
\* segment o
C22_Witness ==
    /\ Parsed /\ parsing.pad = 0 /\ parsing.host = << "h" >>
    /\ parsing.prefix = HttpsScheme /\ parsing.tail = << "/", "o", "/" >>
    /\ SeparatorPresent(NormalisedUrl)
    /\ Err = ErrHTTPSOwnerRepo

\* the text is of one of the three forms
HasForm == parsing.prefix \in { GitAt, HttpScheme, HttpsScheme }

\* the same text with the host h
WithHost(h) == UrlText(parsing.prefix, h, parsing.tail, parsing.pad)

NotBlank(h) == \E i \in DOMAIN h : ~IsSpace(h[i])

(* C23  Host independence, as claimed: two inputs of the same form that    *)
(* differ only in the host (hosts without a colon or a slash) have the     *)
(* same result, the same identity or the same error.                       *)
C23_HostIndependence ==
    (Parsed /\ HasForm) =>
        \A h \in UrlHosts : ParseGitHubRepoFromUrl(WithHost(h)) = parsing.result

(* C23  as amended: the same for hosts that have a character other than    *)
(* whitespace.                                                             *)
C23_HostIndependenceAmended ==
    (Parsed /\ HasForm /\ NotBlank(parsing.host)) =>
        \A h \in UrlHosts :
            NotBlank(h) => ParseGitHubRepoFromUrl(WithHost(h)) = parsing.result

\* https://g.h/o/r.git has parsed to (o, r), as it does with the host github.com
C23_Witness ==
    /\ Parsed /\ parsing.prefix = HttpsScheme /\ parsing.host = << "g", ".", "h" >>
    /\ parsing.tail = << "/", "o", "/", "r" >> \o DotGit
    /\ parsing.result = ParseResult(<< "o" >>, << "r" >>, ErrNil)
    /\ ParseGitHubRepoFromUrl(
           WithHost(<< "g", "i", "t", "h", "u", "b", ".", "c", "o", "m" >>)) = parsing.result

-----------------------------------------------------------------------------
(* Properties of GetRepoShortName (SpecParseText).                         *)

Named == parsing.named

(* C24  GetRepoShortName(url): when url starts with https://github.com/    *)
(* the result is url without that prefix and without a trailing .git; for  *)
(* every other url the result is url itself, character for character.      *)
C24_ShortDisplayName ==
    Named =>
        IF HasPrefix(parsing.url, GitHubPrefix)
            THEN parsing.short =
                     TrimSuffix(SliceFrom(parsing.url, Len(GitHubPrefix)), DotGit)
            ELSE parsing.short = parsing.url

-----------------------------------------------------------------------------
(* Properties of the remote lookup (SpecRemotes).                          *)

LookedUp == lookup.done
Wanted   == IF lookup.op = "GetOriginUrl" THEN "origin" ELSE "upstream"
NotFound == IF lookup.op = "GetOriginUrl" THEN ErrNoOrigin ELSE ErrNoUpstream

\* the positions of the remotes with the wanted name
Matching == { i \in DOMAIN gitRepo.remotes : gitRepo.remotes[i].name = Wanted }
FirstMatching == gitRepo.remotes[CHOOSE i \in Matching : \A j \in Matching : i <= j]

(* C25  Remote lookup: the lookup of origin or upstream succeeds with the  *)
(* first URL of the remote of exactly that name, gives the not-found error *)
(* when no remote has that name, and every outcome is an error or a        *)
(* configured, non-empty URL: never a success with an empty URL.           *)
C25_RemoteLookup ==
    (LookedUp /\ gitRepo.opens) =>
        /\ (Matching # {} /\ ~FirstMatching.getUrlFails /\ FirstMatching.urls # << >>)
               => lookup.result = UrlResult(FirstMatching.urls[1], ErrNil)
        /\ Matching = {} => lookup.result.err = NotFound
        /\ \/ lookup.result.err # ErrNil
           \/ lookup.result.url # << >>
                  /\ \E i \in DOMAIN gitRepo.remotes :
                         \E k \in DOMAIN gitRepo.remotes[i].urls :
                             lookup.result.url = gitRepo.remotes[i].urls[k]

-----------------------------------------------------------------------------
(* Properties of the template expansion (SpecCompose).                     *)

\* the raw text does not parse or does not execute as a template
TemplateFails == ~ExecuteTemplate(SearchValue).ok
\* the raw text has no template action
NoTemplateAction == IndexPair(SearchValue, LeftDelim, 0) = -1

\* the last tokens are the ones of suffix
EndsWith(tokens, suffix) ==
    /\ Len(suffix) <= Len(tokens)
    /\ SubSeq(tokens, Len(tokens) - Len(suffix) + 1, Len(tokens)) = suffix

(* C26  Template expansion is best-effort: when the raw text fails to      *)
(* parse or execute as a template the expander returns it unchanged and    *)
(* the query is composed from it in every scope state (the query is not    *)
(* empty and ends with the text's tokens other than repo: tokens, less the *)
(* suppressed author:@me); a raw text without template actions expands to  *)
(* itself.                                                                 *)
C26_BestEffortExpansion ==
    Fresh =>
        /\ TemplateFails =>
               /\ enrichSearchWithTemplateVars(Self) = SearchValue
               /\ EndsWith(QueryTokens, Suppressed(NonRepo(Fields(SearchValue))))
               /\ query.value # << >>
        /\ NoTemplateAction => enrichSearchWithTemplateVars(Self) = SearchValue

\* "x {{" does not parse; scoped to the origin it is composed to
\* "repo:a/b x {{"
C26_Witness ==
    /\ Fresh /\ TemplateFails
    /\ SearchValue = << "x", " " >> \o LeftDelim
    /\ FilterTarget = FilterTargetOrigin /\ CustomRepoFilter = << >>
    /\ QueryTokens = << RepoToken(RepoAB), << "x" >>, LeftDelim >>

-----------------------------------------------------------------------------
(* Properties of the section under the toggles alone (SpecToggles).        *)

\* smart filtering put repo:<origin> into the raw text at launch, and origin
\* and upstream resolve to different identities
LaunchedScoped ==
    /\ Config.SmartFilteringAtLaunch
    /\ LaunchSearchValue # Config.Filters
    /\ SearchValue = LaunchSearchValue
    /\ Origin.has /\ Upstream.has /\ OriginName # UpstreamName

(* C27  ScopeTarget governs the query across toggles: from the launch      *)
(* state with ScopeTarget = Origin and repo:<origin> in the raw text,      *)
(* origin and upstream resolving to different identities and the raw text  *)
(* not edited, the query's repo: token follows ScopeTarget: the upstream   *)
(* identity after the first toggle, none after the second, the origin      *)
(* identity after the third.                                               *)
C27_QueryFollowsToggle ==
    (Fresh /\ LaunchedScoped) =>
        RepoValuesOf(QueryTokens) =
            CASE FilterTarget = FilterTargetOrigin   -> << OriginName >>
              [] FilterTarget = FilterTargetUpstream -> << UpstreamName >>
              [] FilterTarget = FilterTargetNone     -> << >>

-----------------------------------------------------------------------------
(* Properties of the state machine Spec: label, picker and flag.           *)

\* the label is a repository name, not one of the literals
LabelIsRepoName == query.label \notin { LabelAll, LabelOrigin, LabelUpstream }

(* C28  Label agrees with the query: in every reachable state, whenever    *)
(* GetFilterTargetLabel returns a repository name (not "all", "origin" or  *)
(* "upstream"), the query returned by GetFilters has the token             *)
(* repo:<that label>.                                                      *)
C28_LabelAgreesWithQuery ==
    (Fresh /\ LabelIsRepoName) =>
        \E i \in DOMAIN QueryTokens : QueryTokens[i] = RepoToken(query.label)

-----------------------------------------------------------------------------
(* Properties of the entry points, continued (SpecOps).                    *)

\* the model the recorded entry point was called on
PreSelf ==
    [Self EXCEPT !.SearchValue = Pre.SearchValue,
                 !.FilterTarget = Pre.FilterTarget,
                 !.CustomRepoFilter = Pre.CustomRepoFilter,
                 !.IsAuthorFilterRemoved = Pre.IsAuthorFilterRemoved]

\* raw texts whose only repo: token is repo:v, or without one when v is empty
TextsScopedTo(v) ==
    IF v = << >>
        THEN { << >>, << "x" >>, AuthorMe \o Space \o << "x" >> }
        ELSE { RepoToken(v),
               << "x" >> \o Space \o RepoToken(v),
               RepoToken(v) \o Space \o AuthorMe }

-----------------------------------------------------------------------------
(* Properties of the state machine Spec: the filtered-by-remote flag.      *)

\* BaseModel.IsFilteringByClone()
IsFilteringByClone == IsFilteredByCurrentRemote

(* C30  The filtered-by-remote flag stays in sync: in every reachable      *)
(* state IsFilteringByClone() is true exactly when a repository scope is   *)
(* active: FilterTarget is Origin or Upstream, or CustomRepoFilter is not  *)
(* empty.                                                                  *)
C30_FlagInSync ==
    IsFilteringByClone
        <=> (FilterTarget \in { FilterTargetOrigin, FilterTargetUpstream }
                \/ CustomRepoFilter # << >>)

-----------------------------------------------------------------------------
(* Properties of the state machine Spec: the launch text.                  *)

\* "repo:<origin> " followed by the configured base filter
OriginScopedFilters == RepoPrefix \o OriginName \o Space \o Config.Filters

\* smart filtering is on, the origin is found and parsed, and the base filter
\* has no repo: token
LaunchScopes == Config.SmartFilteringAtLaunch /\ Origin.has /\ ~ConfigHasRepo

(* C31  Launch filter text: the initial raw text is "repo:<owner>/<name> " *)
(* followed by the configured base filter exactly when smart filtering at  *)
(* launch is on, the origin lookup and parse both succeed and the base     *)
(* filter has no token starting with repo:; in every other case it is the  *)
(* configured base filter unchanged.                                       *)
C31_LaunchFilterText ==
    Init =>
        /\ (SearchValue = OriginScopedFilters) <=> LaunchScopes
        /\ ~LaunchScopes => SearchValue = Config.Filters

\* launched with smart filtering on "author:@me" in a clone of a/b: the text is
\* "repo:a/b author:@me"
C31_Witness ==
    /\ Init /\ LaunchScopes
    /\ Config.Filters = AuthorMe
    /\ SearchValue = RepoToken(RepoAB) \o Space \o AuthorMe

-----------------------------------------------------------------------------
(* Properties of the repo picker (SpecOps).                                *)

\* the value of the first repo: token of the raw text, empty without one
CurrentRepoValue ==
    IF RawRepoTokens = << >> THEN << >> ELSE FirstRepoValue

\* the positions, from 0 as the cursor counts, of the options with value v
OptionsWithValue(v) ==
    { i \in 0..(Len(RepoPicker.options) - 1) : RepoPicker.options[i + 1].Value = v }

(* C32  Picker preselection: right after ShowRepoPicker the picker is      *)
(* shown and focused in list mode, and its cursor is on the option whose   *)
(* value is the value of the first repo: token of the raw text (on "All    *)
(* Repositories" when the text has no repo: token), whenever there is such *)
(* an option.                                                              *)
C32_PickerPreselection ==
    Did("ShowRepoPicker") =>
        /\ IsRepoPickerShown
        /\ RepoPicker.focused /\ ~RepoPicker.isCustomMode
        /\ OptionsWithValue(CurrentRepoValue) # {}
               => RepoPicker.cursor \in OptionsWithValue(CurrentRepoValue)

-----------------------------------------------------------------------------
(* Properties of the repository picker (SpecPicker).                       *)

CursorInRange ==
    IF RepoPicker.options = << >>
        THEN RepoPicker.cursor = 0
        ELSE 0 <= RepoPicker.cursor /\ RepoPicker.cursor < Len(RepoPicker.options)

KeyHandled == emitted.key # "none"

SelectedInListMode ==
    KeyHandled /\ emitted.cmd.kind = "RepoSelectedMsg" /\ ~emitted.wasCustomMode

(* C33  Picker cursor stays in range: after any sequence of SetOptions,    *)
(* SetSelectedValue, Focus, Blur and key events, the cursor is 0 when the  *)
(* option list is empty and otherwise at least 0 and less than the number  *)
(* of options; a Select in list mode emits the value of the option under   *)
(* the cursor, not marked custom; and an unfocused picker ignores every    *)
(* key: it stays as it was and returns no command.                         *)
C33_CursorInRange ==
    /\ CursorInRange
    /\ SelectedInListMode =>
           /\ RepoPicker.options # << >>
           /\ emitted.cmd.Value = RepoPicker.options[RepoPicker.cursor + 1].Value
           /\ ~emitted.cmd.IsCustom
    /\ (KeyHandled /\ ~emitted.wasFocused) => (emitted.unchanged /\ emitted.cmd = NilCmd)

\* with the cursor on the last of several options, Select in list mode emitted
\* that option's value
C33_Witness ==
    /\ SelectedInListMode
    /\ Len(RepoPicker.options) > 1
    /\ RepoPicker.cursor = Len(RepoPicker.options) - 1
    /\ emitted.cmd.Value = RepoAB

====
